---- MODULE Spec2Model ----
(***************************************************************************)
(* A model of the go-redmine client: request construction under the four  *)
(* auth variants, and the paged issue listing that drives repeated GET    *)
(* requests until the reported total_count is reached.                    *)
(*                                                                         *)
(* Go strings are modelled as sequences of one-character strings, so that *)
(* strconv.Itoa, query parameters and the filter clause are computed and  *)
(* not assumed.  A url.Values is a function from keys to non-empty        *)
(* sequences of values.  An error is the sequence of its messages,        *)
(* outermost wrapper first; the nil error is the empty sequence.          *)
(***************************************************************************)
EXTENDS Integers, Sequences, FiniteSets, TLC

(* ------------------------------ bounds -------------------------------- *)

\* the largest number of issues the server holds
MaxN == 3
\* the largest page size (client Limit, server default limit)
MaxLimit == 2
\* the number of requests the observer records; later ones set overflow
MaxRequests == 4
\* the largest number of issues a listing accumulates from a server that
\* does not serve honest pages
MaxAcc == 3

(* --------------------------- program constants ------------------------ *)

NoSetting == -1
AuthTypeBasicAuth == 0
AuthTypeTokenQueryParam == 1
AuthTypeBasicAuthWithTokenPassword == 2
AuthTypeNoAuth == 3

StatusOK == 200

(* ------------------------------ strings ------------------------------- *)

Digits == <<"0", "1", "2", "3", "4", "5", "6", "7", "8", "9">>

RECURSIVE Itoa(_)
\* strconv.Itoa: the decimal digits of n, with a leading "-" when negative
Itoa(n) ==
    IF n < 0 THEN <<"-">> \o Itoa(0 - n)
    ELSE IF n < 10 THEN <<Digits[n + 1]>>
    ELSE Itoa(n \div 10) \o <<Digits[(n % 10) + 1]>>

DigitVal(c) == (CHOOSE i \in 1..10 : Digits[i] = c) - 1

IsNumber(s) == Len(s) > 0 /\ \A i \in 1..Len(s) : \E d \in 1..10 : Digits[d] = s[i]

RECURSIVE Atoi(_)
\* the server's reading of a decimal parameter (0 when it is not a number)
Atoi(s) ==
    IF ~IsNumber(s) THEN 0
    ELSE IF Len(s) = 1 THEN DigitVal(s[1])
    ELSE 10 * Atoi(SubSeq(s, 1, Len(s) - 1)) + DigitVal(s[Len(s)])

EmptyString == <<>>
strKey == <<"k", "e", "y">>
strLimit == <<"l", "i", "m", "i", "t">>
strOffset == <<"o", "f", "f", "s", "e", "t">>
strProjectId == <<"p", "r", "o", "j", "e", "c", "t", "_", "i", "d">>
strQueryId == <<"q", "u", "e", "r", "y", "_", "i", "d">>

\* the credentials used by the callers of the model
testToken == <<"t", "0", "k">>
testUser == <<"u", "s", "r">>
testPassword == <<"p", "=", "&">>

(* ---------------------------- url.Values ------------------------------ *)

EmptyQuery == [k \in {} |-> <<>>]

HasParam(q, key) == key \in DOMAIN q

\* url.Values.Get: the first value of the key, "" when absent
QueryGet(q, key) == IF key \in DOMAIN q THEN q[key][1] ELSE EmptyString

\* url.Values.Add: appends the value to the key's values
QueryAdd(q, key, value) ==
    [k \in DOMAIN q \cup {key} |->
        IF k = key
        THEN (IF key \in DOMAIN q THEN Append(q[key], value) ELSE <<value>>)
        ELSE q[k]]

\* url.Values.Set: replaces the key's values by the one value
QuerySet(q, key, value) ==
    [k \in DOMAIN q \cup {key} |-> IF k = key THEN <<value>> ELSE q[k]]

(* ------------------------------ errors -------------------------------- *)

NilError == <<>>

IsNil(err) == Len(err) = 0

\* one message of an error chain
E(msg, args) == [msg |-> msg, args |-> args]

\* errors.New / fmt.Errorf
NewError(msg, args) == <<E(msg, args)>>

\* errors.Wrap / errors.Wrapf of github.com/pkg/errors: nil stays nil
Wrap(err, msg, args) == IF IsNil(err) THEN NilError ELSE <<E(msg, args)>> \o err

(* ------------------------------- client ------------------------------- *)

APIAuth(authType, token, user, password) ==
    [AuthType |-> authType, Token |-> token, User |-> user, Password |-> password]

\* a validation that does not look at the user
validate_noUserCheck(auth) ==
    IF auth.AuthType < AuthTypeBasicAuth \/ auth.AuthType > AuthTypeNoAuth
    THEN NewError("invalid auth configuration: AuthType found", <<auth.AuthType>>)
    ELSE IF /\ auth.AuthType \in {AuthTypeTokenQueryParam, AuthTypeBasicAuthWithTokenPassword}
            /\ auth.Token = EmptyString
    THEN NewError("invalid auth configuration: API token must not be empty", <<auth.AuthType>>)
    ELSE NilError

\* APIAuth.validate
validate(auth) ==
    IF auth.AuthType < AuthTypeBasicAuth \/ auth.AuthType > AuthTypeNoAuth
    THEN NewError("invalid auth configuration: AuthType found", <<auth.AuthType>>)
    ELSE IF /\ auth.AuthType \in {AuthTypeBasicAuth, AuthTypeBasicAuthWithTokenPassword}
            /\ auth.User = EmptyString
    THEN NewError("invalid auth configuration: user must not be empty", <<auth.AuthType>>)
    ELSE IF /\ auth.AuthType \in {AuthTypeTokenQueryParam, AuthTypeBasicAuthWithTokenPassword}
            /\ auth.Token = EmptyString
    THEN NewError("invalid auth configuration: API token must not be empty", <<auth.AuthType>>)
    ELSE NilError

\* NewClient: the client, or no client and the wrapped validation error
NewClient(endpoint, auth) ==
    IF ~IsNil(validate(auth))
    THEN [ok |-> FALSE,
          err |-> Wrap(validate(auth), "could not create redmine client", <<>>)]
    ELSE [ok |-> TRUE, err |-> NilError,
          endpoint |-> endpoint, auth |-> auth,
          Limit |-> NoSetting, Offset |-> NoSetting]

(* ------------------------------ requests ------------------------------ *)

NoBasicAuth == [set |-> FALSE, user |-> EmptyString, password |-> EmptyString]

\* a nil *http.Request
NilRequest ==
    [isNil |-> TRUE, method |-> "", path |-> [resource |-> "", id |-> 0],
     query |-> EmptyQuery,
     basicAuth |-> NoBasicAuth, contentType |-> "", steps |-> <<>>]

strAuthorization == <<"A", "u", "t", "h", "o", "r", "i", "z", "a", "t", "i", "o", "n">>

\* A request keeps, next to what the code stores in it, the names of the
\* query parameters and headers set on it after its creation, in the order
\* in which each was first set.
Touch(req, what) ==
    IF \E i \in 1..Len(req.steps) : req.steps[i] = what THEN req
    ELSE [req EXCEPT !.steps = Append(@, what)]

\* http.NewRequest: fails when the URL does not parse.  An endpoint is
\* "valid" or "invalid"; the path is the resource path appended to it.
NewRequest(method, url) ==
    IF url.endpoint = "valid"
    THEN [req |-> [isNil |-> FALSE, method |-> method, path |-> url.path,
                   query |-> EmptyQuery, basicAuth |-> NoBasicAuth,
                   contentType |-> "", steps |-> <<>>],
          err |-> NilError]
    ELSE [req |-> NilRequest, err |-> NewError("parse: invalid URL", <<url.path>>)]

\* http.Request.SetBasicAuth
SetBasicAuth(req, user, password) ==
    [Touch(req, strAuthorization) EXCEPT
        !.basicAuth = [set |-> TRUE, user |-> user, password |-> password]]

\* safelyAddQueryParameter: no-op for an empty key, else url.Values.Add on the
\* request's URL; reading req.URL of a nil request panics
safelyAddQueryParameter(req, key, value) ==
    IF key = EmptyString THEN [req |-> req, err |-> NilError, panic |-> FALSE]
    ELSE IF req.isNil THEN [req |-> req, err |-> NilError, panic |-> TRUE]
    ELSE [req |-> [Touch(req, key) EXCEPT !.query = QueryAdd(req.query, key, value)],
          err |-> NilError, panic |-> FALSE]

\* the result of authenticatedRequest: a request, an error, or a panic
AuthOk(request) == [req |-> request, err |-> NilError, panic |-> FALSE]
AuthFailed(errorMsg, err) == [req |-> NilRequest, err |-> <<errorMsg>> \o err, panic |-> FALSE]
AuthPanic == [req |-> NilRequest, err |-> NilError, panic |-> TRUE]

\* authenticatedRequest, case AuthTypeBasicAuth
caseBasicAuth(c, created, errorMsg) ==
    IF ~IsNil(created.err) THEN AuthFailed(errorMsg, created.err)
    ELSE AuthOk(SetBasicAuth(created.req, c.auth.User, c.auth.Password))

\* a token case that also sets Basic credentials
caseTokenQueryParam_alsoBasic(c, created, errorMsg) ==
    LET added == safelyAddQueryParameter(created.req, strKey, c.auth.Token)
    IN  IF added.panic THEN AuthPanic
        ELSE IF ~IsNil(added.err) THEN AuthFailed(errorMsg, added.err)
        ELSE AuthOk(SetBasicAuth(added.req, c.auth.User, c.auth.Token))

\* authenticatedRequest, case AuthTypeTokenQueryParam: the error of
\* http.NewRequest is not looked at before the request is used
caseTokenQueryParam(c, created, errorMsg) ==
    LET added == safelyAddQueryParameter(created.req, strKey, c.auth.Token)
    IN  IF added.panic THEN AuthPanic
        ELSE IF ~IsNil(added.err) THEN AuthFailed(errorMsg, added.err)
        ELSE AuthOk(added.req)

\* a token-as-password case that sends the password field
caseBasicAuthWithTokenPassword_password(c, created, errorMsg) ==
    IF ~IsNil(created.err) THEN AuthFailed(errorMsg, created.err)
    ELSE AuthOk(SetBasicAuth(created.req, c.auth.User, c.auth.Password))

\* authenticatedRequest, case AuthTypeBasicAuthWithTokenPassword
caseBasicAuthWithTokenPassword(c, created, errorMsg) ==
    IF ~IsNil(created.err) THEN AuthFailed(errorMsg, created.err)
    ELSE AuthOk(SetBasicAuth(created.req, c.auth.User, c.auth.Token))

\* authenticatedRequest, case AuthTypeNoAuth
caseNoAuth(c, created, errorMsg) ==
    IF ~IsNil(created.err) THEN AuthFailed(errorMsg, created.err)
    ELSE AuthOk(created.req)

\* Client.authenticatedRequest
authenticatedRequest(c, method, url) ==
    LET created == NewRequest(method, url)
        errorMsg == E("could not create request", <<method, url, c.auth.AuthType>>)
    IN  CASE c.auth.AuthType = AuthTypeBasicAuth -> caseBasicAuth(c, created, errorMsg)
          [] c.auth.AuthType = AuthTypeTokenQueryParam ->
                caseTokenQueryParam(c, created, errorMsg)
          [] c.auth.AuthType = AuthTypeBasicAuthWithTokenPassword ->
                caseBasicAuthWithTokenPassword(c, created, errorMsg)
          [] c.auth.AuthType = AuthTypeNoAuth -> caseNoAuth(c, created, errorMsg)
          [] OTHER ->
                [req |-> NilRequest, err |-> NewError("unsupported auth type", <<>>),
                 panic |-> FALSE]

\* Client.authenticatedGet
authenticatedGet(c, url) == authenticatedRequest(c, "GET", url)

\* pagination parameters that are added whatever the client's values
getPaginationClauseParams_always(c) ==
    <<[key |-> strLimit, value |-> Itoa(IF c.Limit > -1 THEN c.Limit ELSE 0)],
      [key |-> strOffset, value |-> Itoa(IF c.Offset > -1 THEN c.Offset ELSE 0)]>>

\* Client.getPaginationClauseParams
getPaginationClauseParams(c) ==
    (IF c.Limit > -1 THEN <<[key |-> strLimit, value |-> Itoa(c.Limit)]>> ELSE <<>>)
    \o (IF c.Offset > -1 THEN <<[key |-> strOffset, value |-> Itoa(c.Offset)]>> ELSE <<>>)

\* safelySetQueryParameter: url.Values.Set on the request's URL
safelySetQueryParameter(req, key, value) ==
    IF key = EmptyString THEN [req |-> req, err |-> NilError]
    ELSE [req |-> [Touch(req, key) EXCEPT !.query = QuerySet(req.query, key, value)],
          err |-> NilError]

RECURSIVE safelySetQueryParameters(_, _)
\* safelySetQueryParameters: sets each pair in order, stops at the first error
safelySetQueryParameters(req, kvs) ==
    IF Len(kvs) = 0 THEN [req |-> req, err |-> NilError]
    ELSE LET first == safelySetQueryParameter(req, kvs[1].key, kvs[1].value)
         IN  IF ~IsNil(first.err)
             THEN [req |-> req,
                   err |-> Wrap(first.err, "could not add parameter to request", <<>>)]
             ELSE safelySetQueryParameters(first.req, Tail(kvs))

\* jsonResourceEndpoint: <endpoint>/<resource>.json
jsonResourceEndpoint(endpoint, resource) ==
    [endpoint |-> endpoint, path |-> [resource |-> resource, id |-> 0]]

\* jsonResourceEndpointByID: <endpoint>/<resource>/<id>.json
jsonResourceEndpointByID(endpoint, resource, id) ==
    [endpoint |-> endpoint, path |-> [resource |-> resource, id |-> id]]

\* Client.authenticatedPost, authenticatedPut, authenticatedDelete
authenticatedPost(c, url) == authenticatedRequest(c, "POST", url)
authenticatedPut(c, url) == authenticatedRequest(c, "PUT", url)
authenticatedDelete(c, url) == authenticatedRequest(c, "DELETE", url)

httpContentTypeApplicationJson == "application/json"

\* req.Header.Set(httpHeaderContentType, httpContentTypeApplicationJson)
SetContentType(req) == [req EXCEPT !.contentType = httpContentTypeApplicationJson]

(* ------------------------------- server ------------------------------- *)

Min(a, b) == IF a < b THEN a ELSE b

\* the issues o+1 .. min(o+lim, N) of the server's list: the page at offset o
Page(items, o, lim) ==
    IF o >= Len(items) THEN <<>> ELSE SubSeq(items, o + 1, Min(o + lim, Len(items)))

\* n issues made up by a server that serves arbitrary pages
Invented(o, n) == [i \in 1..n |-> o + i]

\* {"issues": [...], "total_count": total}
IssuesBody(page, total) ==
    [kind |-> "issues", issues |-> page, total |-> total, errors |-> <<>>, id |-> 0]

\* {"errors": [...]}
ErrorsBody(errs) ==
    [kind |-> "errors", issues |-> <<>>, total |-> 0, errors |-> errs, id |-> 0]

\* {"issue": {"id": id}}
IssueBody(id) ==
    [kind |-> "issue", issues |-> <<>>, total |-> 0, errors |-> <<>>, id |-> id]

\* an "empty" body, or a "garbled" one that is no JSON
OtherBody(kind) ==
    [kind |-> kind, issues |-> <<>>, total |-> 0, errors |-> <<>>, id |-> 0]

Response(status, body) == [transport |-> FALSE, status |-> status, body |-> body]

\* no response was received yet
NoResponse == [transport |-> FALSE, status |-> 0, body |-> OtherBody("empty")]

\* c.Do failed: no response
TransportFailure == [transport |-> TRUE, status |-> 0, body |-> OtherBody("empty")]

\* the page size the server uses for a request: its limit parameter, or the
\* server's default
EffectiveLimit(srv, request) ==
    IF HasParam(request.query, strLimit)
    THEN Atoi(QueryGet(request.query, strLimit))
    ELSE srv.defaultLimit

\* The answers the server may give to a listing request.  acc is the number
\* of issues the listing holds: a server that does not serve honest pages
\* hands out at most MaxAcc - acc more.
\*   static, deleting: the page at the request's offset, total_count = N
\*   ignoreOffset:     the first page whatever the offset, total_count = N
\*   arbitrary:        any page size up to the limit with a total_count of 0,
\*                     of the count the listing holds or of MaxN, or a
\*                     transport failure, an error status, a garbled body
ListResponses(srv, request, acc) ==
    LET room == MaxAcc - acc
        o == Atoi(QueryGet(request.query, strOffset))
        lim == EffectiveLimit(srv, request)
    IN  CASE srv.mode \in {"static", "deleting"} ->
                {Response(StatusOK, IssuesBody(Page(srv.items, o, lim), Len(srv.items)))}
          [] srv.mode = "ignoreOffset" ->
                IF Len(Page(srv.items, 0, lim)) <= room
                THEN {Response(StatusOK, IssuesBody(Page(srv.items, 0, lim), Len(srv.items)))}
                ELSE {}
          [] OTHER ->
                {Response(StatusOK, IssuesBody(Invented(o, n), t)) :
                    n \in 0..Min(lim, room), t \in {0, acc, MaxN}}
                \cup {TransportFailure, Response(StatusOK, OtherBody("garbled")),
                      Response(401, OtherBody("empty")),
                      Response(500, ErrorsBody(<<"e1", "e2">>))}

(* ---------------------------- the program state ----------------------- *)

VARIABLES
    client,     \* the Client built by NewClient, its Limit and Offset set
    server,     \* the server: its mode, its issues, its default page size
    pc,         \* per caller: "off", "idle", "loop", "wait", "done"
    op,         \* per caller: the operation it runs
    req,        \* per caller: the *http.Request of the operation
    issues,     \* per caller: the issues accumulated by the listing
    completed,  \* per caller: the loop flag of getPagedIssuesForRequest
    result,     \* per caller: what the operation returned
    inflight,   \* per caller: requests sent whose response has not arrived
    pages,      \* per caller: the number of issues of each decoded page
    lastTotal,  \* per caller: the total_count of the last decoded page
    response,   \* per caller: the last response it received
    bodyCloses, \* per caller: how often the body of that response was closed
    marshalled, \* per caller: the issue it passed and the JSON made of it
    log,        \* the requests the server received, in order
    overflow    \* a request was sent after the log was full

vars == <<client, server, pc, op, req, issues, completed, result, inflight,
          pages, lastTotal, response, bodyCloses, marshalled,
                   log, overflow>>

Procs == {1, 2}

NoOp == [name |-> "none", id |-> 0]

\* a nil *Issue, and a pointer to the issue with the given id
NilIssue == [isNil |-> TRUE, id |-> 0]
IssuePtr(id) == [isNil |-> FALSE, id |-> id]

NoResult ==
    [returned |-> FALSE, panic |-> FALSE, issues |-> <<>>, entity |-> NilIssue,
     err |-> NilError]

\* a listing returned (issues, err)
Returned(iss, err) ==
    [returned |-> TRUE, panic |-> FALSE, issues |-> iss, entity |-> NilIssue,
     err |-> err]

\* a single-entity operation returned (entity, err), or err alone
ReturnedEntity(e, err) ==
    [returned |-> TRUE, panic |-> FALSE, issues |-> <<>>, entity |-> e, err |-> err]

\* the operation ended in a runtime panic
Panicked ==
    [returned |-> FALSE, panic |-> TRUE, issues |-> <<>>, entity |-> NilIssue,
     err |-> NilError]

(* ------------------------- the issue filter --------------------------- *)

strSubprojectId == <<"s", "u", "b">> \o strProjectId
strTrackerId == <<"t", "r", "a", "c", "k", "e", "r", "_", "i", "d">>
strStatusId == <<"s", "t", "a", "t", "u", "s", "_", "i", "d">>
strAssignedToId == <<"a", "s", "s", "i", "g", "n", "e", "d", "_", "t", "o", "_", "i", "d">>
strUpdatedOn == <<"u", "p", "d", "a", "t", "e", "d", "_", "o", "n">>
strSort == <<"s", "o", "r", "t">>

\* an *IssueFilter; ExtraFilters is a map, given as the sequence of its
\* entries in the order the iteration visits them
IssueFilter(projectId, subprojectId, trackerId, statusId, assignedToId, updatedOn, extraIsNil, extra) ==
    [isNil |-> FALSE, ProjectId |-> projectId, SubprojectId |-> subprojectId,
     TrackerId |-> trackerId, StatusId |-> statusId, AssignedToId |-> assignedToId,
     UpdatedOn |-> updatedOn, ExtraIsNil |-> extraIsNil, ExtraFilters |-> extra]

NilFilter ==
    [isNil |-> TRUE, ProjectId |-> EmptyString, SubprojectId |-> EmptyString,
     TrackerId |-> EmptyString, StatusId |-> EmptyString, AssignedToId |-> EmptyString,
     UpdatedOn |-> EmptyString, ExtraIsNil |-> TRUE, ExtraFilters |-> <<>>]

RECURSIVE Join(_, _)
\* strings.Join
Join(parts, sep) ==
    IF Len(parts) = 0 THEN EmptyString
    ELSE IF Len(parts) = 1 THEN parts[1]
    ELSE parts[1] \o sep \o Join(Tail(parts), sep)

RECURSIVE Split(_, _)
\* strings.Split by a one-character separator
Split(s, sep) ==
    IF \A i \in 1..Len(s) : s[i] # sep THEN <<s>>
    ELSE LET i == CHOOSE j \in 1..Len(s) :
                    s[j] = sep /\ \A k \in 1..(j - 1) : s[k] # sep
         IN  <<SubSeq(s, 1, i - 1)>> \o Split(SubSeq(s, i + 1, Len(s)), sep)

\* one "&name=value" term of the clause, or nothing when the field is empty
FilterTerm(name, value) ==
    IF value # EmptyString THEN <<"&">> \o name \o <<"=">> \o value ELSE EmptyString

\* getIssueFilterClause
getIssueFilterClause(filter) ==
    IF filter.isNil THEN EmptyString
    ELSE FilterTerm(strProjectId, filter.ProjectId)
         \o FilterTerm(strSubprojectId, filter.SubprojectId)
         \o FilterTerm(strTrackerId, filter.TrackerId)
         \o FilterTerm(strStatusId, filter.StatusId)
         \o FilterTerm(strAssignedToId, filter.AssignedToId)
         \o FilterTerm(strUpdatedOn, filter.UpdatedOn)
         \o (IF filter.ExtraIsNil THEN EmptyString
             ELSE <<"&">> \o Join([i \in 1..Len(filter.ExtraFilters) |->
                                     filter.ExtraFilters[i].key \o <<"=">>
                                     \o filter.ExtraFilters[i].value],
                                  <<"&">>))

(* ------------------------- building the requests ---------------------- *)

Built(request) == [req |-> request, err |-> NilError, panic |-> FALSE]

NotBuilt(err) == [req |-> NilRequest, err |-> err, panic |-> FALSE]

BuildPanic == [req |-> NilRequest, err |-> NilError, panic |-> TRUE]

\* the part all listings share: the authenticated GET for issues.json
IssuesRequest(c) ==
    LET a == authenticatedGet(c, jsonResourceEndpoint(c.endpoint, "issues"))
    IN  IF a.panic THEN BuildPanic
        ELSE IF ~IsNil(a.err)
        THEN NotBuilt(Wrap(a.err, "error while creating GET request for issues", <<>>))
        ELSE Built(a.req)

\* one step of a build: apply a setter to the request built so far
Then(b, set, msg) ==
    IF b.panic \/ ~IsNil(b.err) THEN b
    ELSE IF ~IsNil(set.err) THEN NotBuilt(Wrap(set.err, msg, <<>>))
    ELSE Built(set.req)

\* Client.Issues up to the call of getPagedIssuesForRequest
BuildIssues(c) ==
    LET b0 == IssuesRequest(c)
    IN  Then(b0, safelySetQueryParameters(b0.req, getPaginationClauseParams(c)),
             "error while adding additional parameters to issue request")

\* an IssuesOf that adds the pagination parameters before project_id
BuildIssuesOf_paginationFirst(c, projectId) ==
    LET b0 == IssuesRequest(c)
        b1 == Then(b0, safelySetQueryParameters(b0.req, getPaginationClauseParams(c)),
                   "error while adding additional parameters to issue request")
    IN  Then(b1, safelySetQueryParameter(b1.req, strProjectId, Itoa(projectId)),
             "error while adding additional parameters to issue request")

\* Client.IssuesOf up to the call of getPagedIssuesForRequest
BuildIssuesOf(c, projectId) ==
    LET b0 == IssuesRequest(c)
        b1 == Then(b0, safelySetQueryParameter(b0.req, strProjectId, Itoa(projectId)),
                   "error while adding additional parameters to issue request")
    IN  Then(b1, safelySetQueryParameters(b1.req, getPaginationClauseParams(c)),
             "error while adding additional parameters to issue request")

\* Client.IssuesByQuery up to the call of getPagedIssuesForRequest
BuildIssuesByQuery(c, queryId) ==
    LET b0 == IssuesRequest(c)
        b1 == Then(b0, safelySetQueryParameters(b0.req, getPaginationClauseParams(c)),
                   "error while adding additional parameters to issue request")
    IN  Then(b1, safelySetQueryParameter(b1.req, strQueryId, Itoa(queryId)),
             "error while adding query_id parameter to issue request")

RECURSIVE SetFilterClauses(_, _)
\* the loop of IssuesByFilter over the clauses split at "&"
SetFilterClauses(b, clauses) ==
    IF Len(clauses) = 0 \/ b.panic \/ ~IsNil(b.err) THEN b
    ELSE LET kv == Split(clauses[1], "=")
         IN  IF Len(kv) # 2
             THEN NotBuilt(NewError("could not properly split issue filter", <<clauses[1]>>))
             ELSE SetFilterClauses(
                     Then(b, safelySetQueryParameter(b.req, kv[1], kv[2]),
                          "error while adding query_id parameter to issue request"),
                     Tail(clauses))

\* Client.IssuesByFilter up to the call of getPagedIssuesForRequest
BuildIssuesByFilter(c, f) ==
    LET b0 == IssuesRequest(c)
        b1 == Then(b0, safelySetQueryParameters(b0.req, getPaginationClauseParams(c)),
                   "error while adding additional parameters to issue request")
    IN  SetFilterClauses(b1, Split(getIssueFilterClause(f), "&"))

(* ------------------- the client with an API key only ------------------ *)

\* NewClient(endpoint, apikey) of client.go: no validation, never fails
NewClientWithKey(endpoint, apikey) ==
    [ok |-> TRUE, err |-> NilError, endpoint |-> endpoint, apikey |-> apikey,
     Limit |-> NoSetting, Offset |-> NoSetting]

\* the client was built by NewClient(endpoint, apikey)
IsLegacy(c) == "apikey" \in DOMAIN c

\* Client.apiKeyParameter: "key=" + c.apikey
apiKeyParameter(c) == strKey \o <<"=">> \o c.apikey

\* Client.getPaginationClause: "&limit=%d" and "&offset=%d" for the set values
getPaginationClause(c) ==
    (IF c.Limit > -1 THEN <<"&">> \o strLimit \o <<"=">> \o Itoa(c.Limit) ELSE EmptyString)
    \o (IF c.Offset > -1 THEN <<"&">> \o strOffset \o <<"=">> \o Itoa(c.Offset)
        ELSE EmptyString)

\* Client.concatParameters: the non-empty parameters joined by "&"
concatParameters(requestParameters) ==
    Join(SelectSeq(requestParameters, LAMBDA param : param # EmptyString), <<"&">>)

\* one "key=value" term of a raw query added to the values; a term without
\* "=" has an empty value, what follows a second "=" belongs to the value
ParseTerm(q, term) ==
    LET kv == Split(term, "=")
    IN  IF term = EmptyString THEN q
        ELSE QueryAdd(q, kv[1], Join(Tail(kv), <<"=">>))

RECURSIVE ParseTerms(_, _)
ParseTerms(q, terms) ==
    IF Len(terms) = 0 THEN q ELSE ParseTerms(ParseTerm(q, terms[1]), Tail(terms))

\* url.ParseQuery of the raw query of a URL: empty terms are skipped
ParseQuery(raw) == ParseTerms(EmptyQuery, Split(raw, "&"))

\* http.NewRequest for a URL given as "<endpoint>/<path>.json?<raw query>"
NewRequestWithQuery(method, url, raw) ==
    LET created == NewRequest(method, url)
    IN  IF ~IsNil(created.err) THEN created
        ELSE [created EXCEPT !.req.query = ParseQuery(raw)]

(* ------------------------------ inputs -------------------------------- *)

\* the auth configurations callers hand to NewClient (some are rejected)
AuthConfigs ==
    { APIAuth(AuthTypeBasicAuth, EmptyString, testUser, testPassword),
      APIAuth(AuthTypeBasicAuth, testToken, testUser, EmptyString),
      APIAuth(AuthTypeBasicAuth, EmptyString, EmptyString, testPassword),
      APIAuth(AuthTypeTokenQueryParam, testToken, EmptyString, EmptyString),
      APIAuth(AuthTypeTokenQueryParam, testToken, testUser, testPassword),
      APIAuth(AuthTypeTokenQueryParam, EmptyString, testUser, testPassword),
      APIAuth(AuthTypeBasicAuthWithTokenPassword, testToken, testUser, testPassword),
      APIAuth(AuthTypeBasicAuthWithTokenPassword, testToken, EmptyString, EmptyString),
      APIAuth(AuthTypeNoAuth, EmptyString, EmptyString, EmptyString),
      APIAuth(AuthTypeNoAuth, testToken, testUser, testPassword),
      APIAuth(AuthTypeNoAuth + 1, testToken, testUser, testPassword) }

Endpoints == {"valid", "invalid"}

\* the values callers assign to Client.Limit and Client.Offset
LimitSettings == {NoSetting} \cup (1..MaxLimit)
OffsetSettings == {NoSetting, 1}

ProjectIds == {1}
QueryIds == {12}

IssueFilters ==
    { NilFilter,
      IssueFilter(EmptyString, EmptyString, EmptyString, EmptyString, EmptyString,
                  EmptyString, TRUE, <<>>),
      IssueFilter(Itoa(1), EmptyString, EmptyString, EmptyString, EmptyString,
                  EmptyString, TRUE, <<>>),
      IssueFilter(EmptyString, EmptyString, EmptyString, <<"*">>, EmptyString,
                  EmptyString, FALSE, <<[key |-> strSort, value |-> <<"i", "d">>]>>) }

ServerModes == {"static", "ignoreOffset", "deleting", "arbitrary"}

\* the servers: one holding the issues 1..n, or one that answers arbitrarily
Servers ==
    { [mode |-> m, items |-> [i \in 1..n |-> i], defaultLimit |-> d] :
        m \in ServerModes \ {"arbitrary"}, n \in 0..MaxN, d \in 1..MaxLimit }
    \cup { [mode |-> "arbitrary", items |-> <<>>, defaultLimit |-> MaxLimit] }

(* ------------------------------- Init --------------------------------- *)

\* NewClient followed by the caller's assignments to Limit and Offset
Clients ==
    { IF NewClient(e, a).ok
      THEN [NewClient(e, a) EXCEPT !.Limit = l, !.Offset = o]
      ELSE NewClient(e, a) :
        e \in Endpoints, a \in AuthConfigs, l \in LimitSettings, o \in OffsetSettings }

\* the API keys callers hand to NewClient(endpoint, apikey)
ApiKeys == {EmptyString, testToken}

\* NewClient(endpoint, apikey) followed by the caller's assignments
LegacyClients ==
    { [NewClientWithKey(e, k) EXCEPT !.Limit = l, !.Offset = o] :
        e \in Endpoints, k \in ApiKeys, l \in LimitSettings, o \in OffsetSettings }

\* no issue was marshalled
NoBody ==
    [isNil |-> TRUE, issue |-> [Parent |-> [isNil |-> TRUE, Id |-> 0], ParentId |-> 0],
     parentIssueId |-> [present |-> FALSE, value |-> EmptyString]]

InitCallers(active) ==
    /\ pc = [p \in Procs |-> IF p \in active THEN "idle" ELSE "off"]
    /\ op = [p \in Procs |-> NoOp]
    /\ req = [p \in Procs |-> NilRequest]
    /\ issues = [p \in Procs |-> <<>>]
    /\ completed = [p \in Procs |-> FALSE]
    /\ result = [p \in Procs |-> NoResult]
    /\ inflight = [p \in Procs |-> 0]
    /\ pages = [p \in Procs |-> <<>>]
    /\ lastTotal = [p \in Procs |-> 0]
    /\ response = [p \in Procs |-> NoResponse]
    /\ bodyCloses = [p \in Procs |-> 0]
    /\ marshalled = [p \in Procs |-> NoBody]
    /\ log = <<>>
    /\ overflow = FALSE

Init ==
    /\ client \in Clients \cup LegacyClients
    /\ server \in Servers
    /\ InitCallers({1})

(* --------------------------- paged listing ---------------------------- *)

\* the caller's wrapper around an error of getPagedIssuesForRequest
ReadWrap(o, err) ==
    CASE o.name = "Issues" -> Wrap(err, "error while reading issues", <<>>)
      [] o.name = "IssuesOf" ->
            Wrap(err, "error while reading issues for project", <<o.id>>)
      [] o.name = "IssuesByQuery" ->
            Wrap(err, "error while reading issues for query id", <<o.id>>)
      [] OTHER -> Wrap(err, "error while reading issues by filter", <<o.id>>)

\* a listing operation runs up to the loop of getPagedIssuesForRequest, or
\* returns the error of building its request
StartListing(p, o, b) ==
    /\ pc[p] = "idle"
    /\ client.ok
    /\ ~IsLegacy(client)
    /\ op' = [op EXCEPT ![p] = o]
    /\ IF b.panic
       THEN /\ pc' = [pc EXCEPT ![p] = "done"]
            /\ result' = [result EXCEPT ![p] = Panicked]
            /\ UNCHANGED req
       ELSE IF ~IsNil(b.err)
       THEN /\ pc' = [pc EXCEPT ![p] = "done"]
            /\ result' = [result EXCEPT ![p] = Returned(<<>>, b.err)]
            /\ UNCHANGED req
       ELSE /\ pc' = [pc EXCEPT ![p] = "loop"]
            /\ req' = [req EXCEPT ![p] = b.req]
            /\ UNCHANGED result
    /\ issues' = [issues EXCEPT ![p] = <<>>]
    /\ completed' = [completed EXCEPT ![p] = FALSE]
    /\ UNCHANGED <<client, server, inflight, pages, lastTotal, response, bodyCloses, marshalled,
                   log, overflow>>

Issues(p) == StartListing(p, [name |-> "Issues", id |-> 0], BuildIssues(client))

IssuesOf(p) ==
    \E projectId \in ProjectIds :
        StartListing(p, [name |-> "IssuesOf", id |-> projectId],
                     BuildIssuesOf(client, projectId))

IssuesByQuery(p) ==
    \E queryId \in QueryIds :
        StartListing(p, [name |-> "IssuesByQuery", id |-> queryId],
                     BuildIssuesByQuery(client, queryId))

IssuesByFilter(p) ==
    \E f \in IssueFilters :
        StartListing(p, [name |-> "IssuesByFilter", id |-> 0],
                     BuildIssuesByFilter(client, f))

\* an offset that stays at the first page
PageOffset_first(p) == 0

\* an offset that is the index of the page
PageOffset_pageIndex(p) == Len(pages[p])

\* an offset taken from a count that all callers share
PageOffset_shared(p) == Len(issues[1]) + Len(issues[2])

\* the offset getPagedIssuesForRequest passes to getOffsetIssueForRequest
PageOffset(p) == Len(issues[p])

\* a loop that does not stop on a total_count of 0
IsComplete_nonZero(r, iss) == r.total = Len(iss) /\ r.total > 0

\* a loop that tests after appending the page
IsComplete_afterAppend(r, iss) == r.total = Len(iss) + Len(r.issues)

\* the loop's test, made before the page r is appended: its total_count
\* equals the count accumulated so far
IsComplete(r, iss) == r.total = Len(iss)

\* a loop that keeps the last page only
AppendPage_replace(iss, page) == page

\* issues = append(issues, r.Issues...)
AppendPage(iss, page) == iss \o page

\* a loop that starts an iteration while a response is awaited
CanSend_overlap(p) == pc[p] \in {"loop", "wait"} /\ ~completed[p]

\* the loop may start an iteration
CanSend(p) == pc[p] = "loop" /\ ~completed[p]

\* a response whose body is left open
DeferClose_leak(closes) == closes

\* defer res.Body.Close(): the body is closed when the function that
\* obtained the response returns
DeferClose(closes) == closes + 1

\* how often the body of a response is closed by the function that obtained
\* it: every operation defers the close right after c.Do gave a response and
\* closes the body nowhere else; a failed c.Do gives no response
BodyClosed(res) == IF res.transport THEN 0 ELSE DeferClose(0)

\* a c.Do that sends the request a second time
Do_resend(p, request) ==
    /\ inflight' = [inflight EXCEPT ![p] = @ + 1]
    /\ log' = log \o <<[proc |-> p, req |-> request], [proc |-> p, req |-> request]>>
    /\ UNCHANGED overflow

\* c.Do: the request goes to the server, which records the first
\* MaxRequests requests of each caller
Do(p, request) ==
    /\ inflight' = [inflight EXCEPT ![p] = @ + 1]
    /\ IF Len(SelectSeq(log, LAMBDA e : e.proc = p)) < MaxRequests
       THEN log' = Append(log, [proc |-> p, req |-> request]) /\ UNCHANGED overflow
       ELSE overflow' = TRUE /\ UNCHANGED log

\* a page request to which the offset is added next to the offsets it has
SendPage_addOffset(p) ==
    /\ CanSend(p)
    /\ LET sent == [Touch(req[p], strOffset) EXCEPT
                       !.query = QueryAdd(req[p].query, strOffset, Itoa(PageOffset(p)))]
       IN  /\ req' = [req EXCEPT ![p] = sent]
           /\ Do(p, sent)
    /\ pc' = [pc EXCEPT ![p] = "wait"]
    /\ UNCHANGED <<client, server, op, issues, completed, result, pages, lastTotal,
                   response, bodyCloses, marshalled>>

\* a page request that asks for one issue more than it holds
SendPage_relimit(p) ==
    /\ CanSend(p)
    /\ LET set == safelySetQueryParameter(req[p], strOffset, Itoa(PageOffset(p)))
           lim == safelySetQueryParameter(set.req, strLimit, Itoa(PageOffset(p) + 1))
       IN  /\ req' = [req EXCEPT ![p] = lim.req]
           /\ Do(p, lim.req)
    /\ pc' = [pc EXCEPT ![p] = "wait"]
    /\ UNCHANGED <<client, server, op, issues, completed, result, pages, lastTotal,
                   response, bodyCloses, marshalled>>

\* getOffsetIssueForRequest up to c.Do: the offset parameter is set on the
\* request and the request is sent
SendPage(p) ==
    /\ CanSend(p)
    /\ LET set == safelySetQueryParameter(req[p], strOffset, Itoa(PageOffset(p)))
       IN  /\ req' = [req EXCEPT ![p] = set.req]
           /\ Do(p, set.req)
    /\ pc' = [pc EXCEPT ![p] = "wait"]
    /\ UNCHANGED <<client, server, op, issues, completed, result, pages, lastTotal,
                   response, bodyCloses, marshalled>>

\* json.Decoder.Decode of a body into a struct: any JSON object decodes (the
\* fields it lacks stay zero), an empty or garbled body does not
Decodes(body) == body.kind \in {"issue", "issues", "errors"}

\* a join that puts the last error first
JoinStrings_reversed(parts, sep) ==
    LET RECURSIVE rev(_)
        rev(ps) == IF Len(ps) = 0 THEN ""
                   ELSE IF Len(ps) = 1 THEN ps[1]
                   ELSE rev(Tail(ps)) \o sep \o ps[1]
    IN  rev(parts)

RECURSIVE JoinStrings(_, _)
\* strings.Join of error messages
JoinStrings(parts, sep) ==
    IF Len(parts) = 0 THEN ""
    ELSE IF Len(parts) = 1 THEN parts[1]
    ELSE parts[1] \o sep \o JoinStrings(Tail(parts), sep)

\* the error "HTTP <status line>" of a response whose body holds no JSON
StatusError(res) == NewError("HTTP status", <<res.status>>)

\* the inline decoding of an error body in project.go and in CreateIssue:
\* the body's errors joined by newlines, or the error of decoding the body
DecodeErrors(res) ==
    IF Decodes(res.body) THEN NewError(JoinStrings(res.body.errors, "\n"), <<>>)
    ELSE NewError("json decode", <<>>)

\* decodeHTTPError: the errors of the body joined by newlines; the status
\* line when the body is no JSON
decodeHTTPError(res) ==
    IF Decodes(res.body) THEN NewError(JoinStrings(res.body.errors, "\n"), <<>>)
    ELSE StatusError(res)

\* a status test that accepts every 2xx status
isHTTPStatusSuccessful_any2xx(httpStatus, acceptedStatuses) == httpStatus \in 200..299

\* isHTTPStatusSuccessful
isHTTPStatusSuccessful(httpStatus, acceptedStatuses) == httpStatus \in acceptedStatuses

\* getOffsetIssueForRequest after c.Do: the decoded page, or the error
DecodePage(res, request) ==
    IF res.transport
    THEN [ok |-> FALSE, issues |-> <<>>, total |-> 0,
          err |-> Wrap(NewError("transport", <<>>), "error while reading issue response", <<>>)]
    ELSE IF ~isHTTPStatusSuccessful(res.status, {StatusOK})
    THEN [ok |-> FALSE, issues |-> <<>>, total |-> 0,
          err |-> Wrap(decodeHTTPError(res),
                       "issue request returned non-successfully, URL", <<request.path>>)]
    ELSE IF res.body.kind \notin {"issues", "errors"}
    THEN [ok |-> FALSE, issues |-> <<>>, total |-> 0, err |-> NewError("json decode", <<>>)]
    ELSE [ok |-> TRUE, issues |-> res.body.issues, total |-> res.body.total,
          err |-> NilError]

\* a failure that returns the issues accumulated so far
PageFailure_partial(iss, err) == [issues |-> iss, err |-> err]

\* what getPagedIssuesForRequest returns when a page request failed
PageFailure(iss, err) == [issues |-> <<>>, err |-> err]

\* The response arrives: the rest of getOffsetIssueForRequest and of the loop
\* body.  On an error the listing returns; when the loop's test holds the
\* page is appended and the listing returns; else the loop goes on.
ReceivePage(p) ==
    /\ pc[p] = "wait"
    /\ \E res \in ListResponses(server, req[p], Len(issues[p])) :
        LET r == DecodePage(res, req[p])
        IN  /\ inflight' = [inflight EXCEPT ![p] = @ - 1]
            /\ response' = [response EXCEPT ![p] = res]
            /\ bodyCloses' = [bodyCloses EXCEPT ![p] = BodyClosed(res)]
            /\ IF ~r.ok
               THEN /\ pc' = [pc EXCEPT ![p] = "done"]
                    /\ result' = [result EXCEPT ![p] =
                          Returned(PageFailure(issues[p], r.err).issues,
                                   ReadWrap(op[p], PageFailure(issues[p], r.err).err))]
                    /\ UNCHANGED <<issues, completed, pages, lastTotal>>
               ELSE /\ completed' = [completed EXCEPT ![p] = IsComplete(r, issues[p])]
                    /\ issues' = [issues EXCEPT ![p] = AppendPage(@, r.issues)]
                    /\ pages' = [pages EXCEPT ![p] =
                          IF Len(@) < MaxRequests THEN Append(@, Len(r.issues)) ELSE @]
                    /\ lastTotal' = [lastTotal EXCEPT ![p] = r.total]
                    /\ IF IsComplete(r, issues[p])
                       THEN /\ pc' = [pc EXCEPT ![p] = "done"]
                            /\ result' = [result EXCEPT ![p] =
                                  Returned(AppendPage(issues[p], r.issues), NilError)]
                       ELSE /\ pc' = [pc EXCEPT ![p] = "loop"]
                            /\ UNCHANGED result
    /\ UNCHANGED <<client, server, op, req, log, overflow, marshalled>>

\* an issue is deleted at the server while a listing runs
ServerDelete ==
    /\ server.mode = "deleting"
    /\ \E p \in Procs : pc[p] \in {"loop", "wait"}
    /\ \E i \in 1..Len(server.items) :
        server' = [server EXCEPT !.items =
                      SubSeq(@, 1, i - 1) \o SubSeq(@, i + 1, Len(@))]
    /\ UNCHANGED <<client, pc, op, req, issues, completed, result, inflight,
                   pages, lastTotal, response, bodyCloses, marshalled,
                   log, overflow>>

(* ---------------------- single-entity operations ---------------------- *)

\* the fields Parent (*Id) and ParentId of an Issue
NilId == [isNil |-> TRUE, Id |-> 0]
IdPtr(n) == [isNil |-> FALSE, Id |-> n]
Issue(parent, parentId) == [Parent |-> parent, ParentId |-> parentId]

\* the issues callers pass to CreateIssue and UpdateIssue
ParentIdValues == {0, 1, 12}
IssueInputs == { Issue(par, pid) : par \in {NilId, IdPtr(1)}, pid \in ParentIdValues }

\* the member "parent_issue_id" of a marshalled issue
Omitted == [present |-> FALSE, value |-> EmptyString]
Emitted(str) == [present |-> TRUE, value |-> str]

\* Issue.MarshalJSON: the outer ParentId *string hides the int field of the
\* embedded Issue2; a nil pointer is omitted, a pointer to "" is emitted
MarshalJSON(issue) ==
    IF issue.Parent.isNil THEN Emitted(EmptyString)
    ELSE IF issue.ParentId > 0 THEN Emitted(Itoa(issue.ParentId))
    ELSE Omitted

\* json.Marshal(ir) of the issueRequest that holds the issue
MarshalRequest(issue) == [isNil |-> FALSE, issue |-> issue, parentIssueId |-> MarshalJSON(issue)]

strInclude == <<"i", "n", "c", "l", "u", "d", "e">>
strJournals == <<"j", "o", "u", "r", "n", "a", "l", "s">>

IssueIds == {1}

\* the args of IssueWithArgs: nil, or a map given in iteration order
IssueArgs == {<<>>, <<[key |-> strInclude, value |-> strJournals]>>}

\* argsToKeyValues
argsToKeyValues(args) == args

\* the answers the server may give to a request for one issue
SingleResponses ==
    { TransportFailure,
      Response(StatusOK, IssueBody(1)),
      Response(StatusOK, OtherBody("garbled")),
      Response(201, IssueBody(1)),
      Response(204, OtherBody("empty")),
      Response(401, OtherBody("empty")),
      Response(202, IssueBody(1)),
      Response(404, OtherBody("empty")),
      Response(404, ErrorsBody(<<"e1">>)),
      Response(422, ErrorsBody(<<>>)),
      Response(422, ErrorsBody(<<"e1", "e2">>)) }

\* getOneIssue up to c.Do
BuildGetOneIssue(c, id, args) ==
    LET a == authenticatedGet(c, jsonResourceEndpointByID(c.endpoint, "issues", id))
        b0 == IF a.panic THEN BuildPanic
              ELSE IF ~IsNil(a.err)
              THEN NotBuilt(Wrap(a.err, "error while creating GET request for issue", <<>>))
              ELSE Built(a.req)
    IN  Then(b0, safelySetQueryParameters(b0.req, argsToKeyValues(args)),
             "error while adding additional parameters to issue request")

\* a getOneIssue that hands out the issue it decoded into together with the
\* error of decoding
GetOneIssueResult_zeroValue(res, id) ==
    IF res.transport
    THEN ReturnedEntity(NilIssue, Wrap(NewError("transport", <<>>), "could not read issue", <<id>>))
    ELSE IF res.status = 404
    THEN ReturnedEntity(NilIssue, NewError("issue (id: %d) was not found", <<id>>))
    ELSE IF ~isHTTPStatusSuccessful(res.status, {StatusOK})
    THEN ReturnedEntity(NilIssue,
                        Wrap(decodeHTTPError(res), "error while reading issue", <<id>>))
    ELSE IF ~Decodes(res.body)
    THEN ReturnedEntity(IssuePtr(res.body.id), NewError("json decode", <<>>))
    ELSE ReturnedEntity(IssuePtr(res.body.id), NilError)

\* getOneIssue after c.Do
GetOneIssueResult(res, id) ==
    IF res.transport
    THEN ReturnedEntity(NilIssue, Wrap(NewError("transport", <<>>), "could not read issue", <<id>>))
    ELSE IF res.status = 404
    THEN ReturnedEntity(NilIssue, NewError("issue (id: %d) was not found", <<id>>))
    ELSE IF ~isHTTPStatusSuccessful(res.status, {StatusOK})
    THEN ReturnedEntity(NilIssue,
                        Wrap(decodeHTTPError(res), "error while reading issue", <<id>>))
    ELSE IF ~Decodes(res.body)
    THEN ReturnedEntity(NilIssue, NewError("json decode", <<>>))
    ELSE ReturnedEntity(IssuePtr(res.body.id), NilError)

\* CreateIssue up to c.Do
BuildCreateIssue(c) ==
    LET a == authenticatedPost(c, jsonResourceEndpoint(c.endpoint, "issues"))
    IN  IF a.panic THEN BuildPanic
        ELSE IF ~IsNil(a.err)
        THEN NotBuilt(Wrap(a.err, "error while creating PUT request for issue", <<>>))
        ELSE Built(SetContentType(a.req))

\* CreateIssue after c.Do
CreateIssueResult(res) ==
    IF res.transport THEN ReturnedEntity(NilIssue, NewError("transport", <<>>))
    ELSE IF ~isHTTPStatusSuccessful(res.status, {201})
    THEN ReturnedEntity(NilIssue, DecodeErrors(res))
    ELSE IF ~Decodes(res.body)
    THEN ReturnedEntity(NilIssue, NewError("json decode", <<>>))
    ELSE ReturnedEntity(IssuePtr(res.body.id), NilError)

\* UpdateIssue up to c.Do
BuildUpdateIssue(c, id) ==
    LET a == authenticatedPut(c, jsonResourceEndpointByID(c.endpoint, "issues", id))
    IN  IF a.panic THEN BuildPanic
        ELSE IF ~IsNil(a.err)
        THEN NotBuilt(Wrap(a.err, "error while creating PUT request for issue", <<>>))
        ELSE Built(SetContentType(a.req))

\* UpdateIssue after c.Do
UpdateIssueResult(res, id) ==
    IF res.transport THEN ReturnedEntity(NilIssue, NewError("transport", <<>>))
    ELSE IF res.status = 404
    THEN ReturnedEntity(NilIssue,
            NewError("could not update issue (id: %d) because it was not found", <<id>>))
    ELSE IF ~isHTTPStatusSuccessful(res.status, {StatusOK, 204})
    THEN ReturnedEntity(NilIssue,
                        Wrap(decodeHTTPError(res), "error while deleting issue", <<id>>))
    ELSE ReturnedEntity(NilIssue, NilError)

\* DeleteIssue up to c.Do
BuildDeleteIssue(c, id) ==
    LET a == authenticatedDelete(c, jsonResourceEndpointByID(c.endpoint, "issues", id))
    IN  IF a.panic THEN BuildPanic
        ELSE IF ~IsNil(a.err) THEN NotBuilt(a.err)
        ELSE Built(SetContentType(a.req))

\* DeleteIssue after c.Do
DeleteIssueResult(res, id) ==
    IF res.transport THEN ReturnedEntity(NilIssue, NewError("transport", <<>>))
    ELSE IF res.status = 404
    THEN ReturnedEntity(NilIssue,
            NewError("could not delete issue (id: %d) because it was not found", <<id>>))
    ELSE IF ~isHTTPStatusSuccessful(res.status, {StatusOK, 204})
    THEN ReturnedEntity(NilIssue,
                        Wrap(decodeHTTPError(res), "error while deleting issue", <<id>>))
    ELSE ReturnedEntity(NilIssue, NilError)

(* ------------------------------ versions ------------------------------ *)

entityEndpointNameVersions == "versions"

\* fmt.Sprintf("%s/%d/%s", "projects", projectId, name)
compoundEndpointName(projectId, name) == "projects/" \o ToString(projectId) \o "/" \o name

\* Client.Version up to c.Do
BuildVersion(c, id) ==
    LET a == authenticatedGet(c, jsonResourceEndpointByID(c.endpoint, entityEndpointNameVersions, id))
        b0 == IF a.panic THEN BuildPanic
              ELSE IF ~IsNil(a.err)
              THEN NotBuilt(Wrap(a.err, "error while creating GET request for version", <<id>>))
              ELSE Built(a.req)
    IN  b0

\* Client.Version after c.Do
VersionResult(res, id) ==
    IF res.transport
    THEN ReturnedEntity(NilIssue, Wrap(NewError("transport", <<>>), "could not read version", <<id>>))
    ELSE IF res.status = 404
    THEN ReturnedEntity(NilIssue, NewError("version (id: %d) was not found", <<id>>))
    ELSE IF ~isHTTPStatusSuccessful(res.status, {StatusOK})
    THEN ReturnedEntity(NilIssue, Wrap(decodeHTTPError(res), "error while reading version", <<id>>))
    ELSE IF ~Decodes(res.body) THEN ReturnedEntity(NilIssue, NewError("json decode", <<>>))
    ELSE ReturnedEntity(IssuePtr(res.body.id), NilError)

\* Client.Versions up to c.Do
BuildVersions(c, projectId) ==
    LET a == authenticatedGet(c, jsonResourceEndpoint(c.endpoint, compoundEndpointName(projectId, entityEndpointNameVersions)))
        b0 == IF a.panic THEN BuildPanic
              ELSE IF ~IsNil(a.err)
              THEN NotBuilt(Wrap(a.err, "error while creating GET request for versions", <<>>))
              ELSE Built(a.req)
    IN  Then(b0, safelySetQueryParameters(b0.req, getPaginationClauseParams(c)),
             "error while adding pagination parameters to versions")

\* Client.Versions after c.Do
VersionsResult(res) ==
    IF res.transport
    THEN ReturnedEntity(NilIssue, Wrap(NewError("transport", <<>>), "could not read issue_categories", <<>>))
    ELSE IF ~isHTTPStatusSuccessful(res.status, {StatusOK})
    THEN ReturnedEntity(NilIssue, Wrap(decodeHTTPError(res), "error while reading versions", <<>>))
    ELSE IF ~Decodes(res.body) THEN ReturnedEntity(NilIssue, NewError("json decode", <<>>))
    ELSE ReturnedEntity(IssuePtr(res.body.id), NilError)

\* Client.CreateVersion up to c.Do
BuildCreateVersion(c, projectId) ==
    LET a == authenticatedPost(c, jsonResourceEndpoint(c.endpoint, compoundEndpointName(projectId, entityEndpointNameVersions)))
        b0 == IF a.panic THEN BuildPanic
              ELSE IF ~IsNil(a.err)
              THEN NotBuilt(Wrap(a.err, "error while creating POST request for version", <<>>))
              ELSE Built(SetContentType(a.req))
    IN  b0

\* Client.CreateVersion after c.Do
CreateVersionResult(res) ==
    IF res.transport
    THEN ReturnedEntity(NilIssue, Wrap(NewError("transport", <<>>), "could not create version", <<>>))
    ELSE IF ~isHTTPStatusSuccessful(res.status, {201})
    THEN ReturnedEntity(NilIssue, Wrap(decodeHTTPError(res), "error while creating version", <<>>))
    ELSE IF ~Decodes(res.body) THEN ReturnedEntity(NilIssue, NewError("json decode", <<>>))
    ELSE ReturnedEntity(IssuePtr(res.body.id), NilError)

\* Client.UpdateVersion up to c.Do
BuildUpdateVersion(c, id) ==
    LET a == authenticatedPut(c, jsonResourceEndpointByID(c.endpoint, entityEndpointNameVersions, id))
        b0 == IF a.panic THEN BuildPanic
              ELSE IF ~IsNil(a.err)
              THEN NotBuilt(Wrap(a.err, "error while creating PUT request for version", <<id>>))
              ELSE Built(SetContentType(a.req))
    IN  b0

\* Client.UpdateVersion after c.Do
UpdateVersionResult(res, id) ==
    IF res.transport
    THEN ReturnedEntity(NilIssue, Wrap(NewError("transport", <<>>), "could not update version", <<id>>))
    ELSE IF res.status = 404
    THEN ReturnedEntity(NilIssue, NewError("could not update version (id: %d) because it was not found", <<id>>))
    ELSE IF ~isHTTPStatusSuccessful(res.status, {StatusOK, 204})
    THEN ReturnedEntity(NilIssue, Wrap(decodeHTTPError(res), "error while updating version", <<id>>))
    ELSE ReturnedEntity(NilIssue, NilError)

\* Client.DeleteVersion up to c.Do
BuildDeleteVersion(c, id) ==
    LET a == authenticatedDelete(c, jsonResourceEndpointByID(c.endpoint, entityEndpointNameVersions, id))
        b0 == IF a.panic THEN BuildPanic
              ELSE IF ~IsNil(a.err)
              THEN NotBuilt(Wrap(a.err, "error while creating DELETE request for version", <<id>>))
              ELSE Built(SetContentType(a.req))
    IN  b0

\* Client.DeleteVersion after c.Do
DeleteVersionResult(res, id) ==
    IF res.transport
    THEN ReturnedEntity(NilIssue, Wrap(NewError("transport", <<>>), "could not delete version", <<id>>))
    ELSE IF res.status = 404
    THEN ReturnedEntity(NilIssue, NewError("could not delete version (id: %d) because it was not found", <<id>>))
    ELSE IF ~isHTTPStatusSuccessful(res.status, {StatusOK, 204})
    THEN ReturnedEntity(NilIssue, Wrap(decodeHTTPError(res), "error while deleting version", <<id>>))
    ELSE ReturnedEntity(NilIssue, NilError)

(* -------------------------- issue categories -------------------------- *)

\* Client.IssueCategory up to c.Do
BuildIssueCategory(c, id) ==
    LET a == authenticatedGet(c, jsonResourceEndpointByID(c.endpoint, "issue_categories", id))
        b0 == IF a.panic THEN BuildPanic
              ELSE IF ~IsNil(a.err)
              THEN NotBuilt(Wrap(a.err, "error while creating GET request for issue category", <<id>>))
              ELSE Built(a.req)
    IN  b0

\* Client.IssueCategory after c.Do
IssueCategoryResult(res, id) ==
    IF res.transport
    THEN ReturnedEntity(NilIssue, Wrap(NewError("transport", <<>>), "could not read issue category", <<id>>))
    ELSE IF res.status = 404
    THEN ReturnedEntity(NilIssue, NewError("issue category (id: %d) was not found", <<id>>))
    ELSE IF ~isHTTPStatusSuccessful(res.status, {StatusOK})
    THEN ReturnedEntity(NilIssue, Wrap(decodeHTTPError(res), "error while reading issue category", <<id>>))
    ELSE IF ~Decodes(res.body) THEN ReturnedEntity(NilIssue, NewError("json decode", <<>>))
    ELSE ReturnedEntity(IssuePtr(res.body.id), NilError)

\* Client.IssueCategories up to c.Do
BuildIssueCategories(c, projectId) ==
    LET a == authenticatedGet(c, jsonResourceEndpoint(c.endpoint, compoundEndpointName(projectId, "issue_categories")))
        b0 == IF a.panic THEN BuildPanic
              ELSE IF ~IsNil(a.err)
              THEN NotBuilt(Wrap(a.err, "error while creating GET request for issue_categories", <<>>))
              ELSE Built(a.req)
    IN  Then(b0, safelySetQueryParameters(b0.req, getPaginationClauseParams(c)),
             "error while adding pagination parameters to issue_categories")

\* Client.IssueCategories after c.Do
IssueCategoriesResult(res) ==
    IF res.transport
    THEN ReturnedEntity(NilIssue, Wrap(NewError("transport", <<>>), "could not read issue_categories", <<>>))
    ELSE IF ~isHTTPStatusSuccessful(res.status, {StatusOK})
    THEN ReturnedEntity(NilIssue, Wrap(decodeHTTPError(res), "error while reading issue_categories", <<>>))
    ELSE IF ~Decodes(res.body) THEN ReturnedEntity(NilIssue, NewError("json decode", <<>>))
    ELSE ReturnedEntity(IssuePtr(res.body.id), NilError)

\* Client.CreateIssueCategory up to c.Do
BuildCreateIssueCategory(c) ==
    LET a == authenticatedPost(c, jsonResourceEndpoint(c.endpoint, "issue_categories"))
        b0 == IF a.panic THEN BuildPanic
              ELSE IF ~IsNil(a.err)
              THEN NotBuilt(Wrap(a.err, "error while creating POST request for issue category", <<>>))
              ELSE Built(SetContentType(a.req))
    IN  b0

\* Client.CreateIssueCategory after c.Do
CreateIssueCategoryResult(res) ==
    IF res.transport
    THEN ReturnedEntity(NilIssue, Wrap(NewError("transport", <<>>), "could not create issue category", <<>>))
    ELSE IF ~isHTTPStatusSuccessful(res.status, {201})
    THEN ReturnedEntity(NilIssue, Wrap(decodeHTTPError(res), "error while creating issue category", <<>>))
    ELSE IF ~Decodes(res.body) THEN ReturnedEntity(NilIssue, NewError("json decode", <<>>))
    ELSE ReturnedEntity(IssuePtr(res.body.id), NilError)

\* Client.UpdateIssueCategory up to c.Do
BuildUpdateIssueCategory(c, id) ==
    LET a == authenticatedPut(c, jsonResourceEndpointByID(c.endpoint, "issue_categories", id))
        b0 == IF a.panic THEN BuildPanic
              ELSE IF ~IsNil(a.err)
              THEN NotBuilt(Wrap(a.err, "error while creating PUT request for issue category", <<id>>))
              ELSE Built(SetContentType(a.req))
    IN  b0

\* Client.UpdateIssueCategory after c.Do
UpdateIssueCategoryResult(res, id) ==
    IF res.transport
    THEN ReturnedEntity(NilIssue, Wrap(NewError("transport", <<>>), "could not update project", <<id>>))
    ELSE IF res.status = 404
    THEN ReturnedEntity(NilIssue, NewError("could not update issue category (id: %d) because it was not found", <<id>>))
    ELSE IF ~isHTTPStatusSuccessful(res.status, {StatusOK, 204})
    THEN ReturnedEntity(NilIssue, Wrap(decodeHTTPError(res), "error while updating issue category", <<id>>))
    ELSE ReturnedEntity(NilIssue, NilError)

\* Client.DeleteIssueCategory up to c.Do
BuildDeleteIssueCategory(c, id) ==
    LET a == authenticatedDelete(c, jsonResourceEndpointByID(c.endpoint, "issue_categories", id))
        b0 == IF a.panic THEN BuildPanic
              ELSE IF ~IsNil(a.err)
              THEN NotBuilt(Wrap(a.err, "error while creating DELETE request for issue category", <<id>>))
              ELSE Built(SetContentType(a.req))
    IN  b0

\* Client.DeleteIssueCategory after c.Do
DeleteIssueCategoryResult(res, id) ==
    IF res.transport
    THEN ReturnedEntity(NilIssue, Wrap(NewError("transport", <<>>), "could not delete issue category", <<id>>))
    ELSE IF res.status = 404
    THEN ReturnedEntity(NilIssue, NewError("could not delete issue category (id: %d) because it was not found", <<id>>))
    ELSE IF ~isHTTPStatusSuccessful(res.status, {StatusOK, 204})
    THEN ReturnedEntity(NilIssue, Wrap(decodeHTTPError(res), "error while deleting issue category", <<id>>))
    ELSE ReturnedEntity(NilIssue, NilError)

(* -------------------------- issue priorities -------------------------- *)

\* Client.IssuePriorities up to c.Do
BuildIssuePriorities(c) ==
    LET a == authenticatedGet(c, jsonResourceEndpoint(c.endpoint, "enumerations/issue_priorities"))
        b0 == IF a.panic THEN BuildPanic
              ELSE IF ~IsNil(a.err)
              THEN NotBuilt(Wrap(a.err, "error while creating GET request for issue priorities", <<>>))
              ELSE Built(a.req)
    IN  Then(b0, safelySetQueryParameters(b0.req, getPaginationClauseParams(c)),
             "error while adding additional parameters to issue priorities request")

\* Client.IssuePriorities after c.Do
IssuePrioritiesResult(res) ==
    IF res.transport
    THEN ReturnedEntity(NilIssue, Wrap(NewError("transport", <<>>), "error while reading issue priorities response", <<>>))
    ELSE IF ~isHTTPStatusSuccessful(res.status, {StatusOK})
    THEN ReturnedEntity(NilIssue, Wrap(decodeHTTPError(res),
                        "issue request returned non-successfully, URL", <<>>))
    ELSE IF ~Decodes(res.body) THEN ReturnedEntity(NilIssue, NewError("json decode", <<>>))
    ELSE ReturnedEntity(IssuePtr(res.body.id), NilError)

(* ------------------------------ projects ------------------------------ *)

\* Client.Project up to c.Do: the URL is put together as a string
BuildProject(c, id) ==
    LET created == NewRequestWithQuery("GET", jsonResourceEndpointByID(c.endpoint, "projects", id),
                                       apiKeyParameter(c))
    IN  IF ~IsNil(created.err) THEN NotBuilt(created.err)
        ELSE Built(created.req)

\* Client.Project after c.Do
ProjectResult(res, id) ==
    IF res.transport THEN ReturnedEntity(NilIssue, NewError("transport", <<>>))
    ELSE IF res.status = 404
    THEN ReturnedEntity(NilIssue, NewError("project (id: %d) was not found", <<id>>))
    ELSE IF ~isHTTPStatusSuccessful(res.status, {StatusOK})
    THEN ReturnedEntity(NilIssue, DecodeErrors(res))
    ELSE IF ~Decodes(res.body) THEN ReturnedEntity(NilIssue, NewError("json decode", <<>>))
    ELSE ReturnedEntity(IssuePtr(res.body.id), NilError)

\* Client.Projects up to c.Do: the URL is put together as a string
BuildProjects(c) ==
    LET created == NewRequestWithQuery("GET", jsonResourceEndpoint(c.endpoint, "projects"),
                                       concatParameters(<<apiKeyParameter(c), getPaginationClause(c)>>))
    IN  IF ~IsNil(created.err) THEN NotBuilt(created.err)
        ELSE Built(created.req)

\* Client.Projects after c.Do
ProjectsResult(res) ==
    IF res.transport THEN ReturnedEntity(NilIssue, NewError("transport", <<>>))
    ELSE IF ~isHTTPStatusSuccessful(res.status, {StatusOK})
    THEN ReturnedEntity(NilIssue, DecodeErrors(res))
    ELSE IF ~Decodes(res.body) THEN ReturnedEntity(NilIssue, NewError("json decode", <<>>))
    ELSE ReturnedEntity(IssuePtr(res.body.id), NilError)

\* Client.CreateProject up to c.Do: the URL is put together as a string
BuildCreateProject(c) ==
    LET created == NewRequestWithQuery("POST", jsonResourceEndpoint(c.endpoint, "projects"),
                                       concatParameters(<<apiKeyParameter(c)>>))
    IN  IF ~IsNil(created.err) THEN NotBuilt(created.err)
        ELSE Built(SetContentType(created.req))

\* Client.CreateProject after c.Do
CreateProjectResult(res) ==
    IF res.transport THEN ReturnedEntity(NilIssue, NewError("transport", <<>>))
    ELSE IF ~isHTTPStatusSuccessful(res.status, {201})
    THEN ReturnedEntity(NilIssue, DecodeErrors(res))
    ELSE IF ~Decodes(res.body) THEN ReturnedEntity(NilIssue, NewError("json decode", <<>>))
    ELSE ReturnedEntity(IssuePtr(res.body.id), NilError)

\* Client.UpdateProject up to c.Do: the URL is put together as a string
BuildUpdateProject(c, id) ==
    LET created == NewRequestWithQuery("PUT", jsonResourceEndpointByID(c.endpoint, "projects", id),
                                       concatParameters(<<apiKeyParameter(c)>>))
    IN  IF ~IsNil(created.err) THEN NotBuilt(created.err)
        ELSE Built(SetContentType(created.req))

\* Client.UpdateProject after c.Do
UpdateProjectResult(res, id) ==
    IF res.transport THEN ReturnedEntity(NilIssue, NewError("transport", <<>>))
    ELSE IF res.status = 404
    THEN ReturnedEntity(NilIssue, NewError("could not update project (id: %d) because it was not found", <<id>>))
    ELSE IF ~isHTTPStatusSuccessful(res.status, {StatusOK, 204})
    THEN ReturnedEntity(NilIssue, DecodeErrors(res))
    ELSE ReturnedEntity(NilIssue, NilError)

\* Client.DeleteProject up to c.Do: the URL is put together as a string
BuildDeleteProject(c, id) ==
    LET created == NewRequestWithQuery("DELETE", jsonResourceEndpointByID(c.endpoint, "projects", id),
                                       concatParameters(<<apiKeyParameter(c)>>))
    IN  IF ~IsNil(created.err) THEN NotBuilt(created.err)
        ELSE Built(SetContentType(created.req))

\* Client.DeleteProject after c.Do
DeleteProjectResult(res, id) ==
    IF res.transport THEN ReturnedEntity(NilIssue, NewError("transport", <<>>))
    ELSE IF res.status = 404
    THEN ReturnedEntity(NilIssue, NewError("could not delete project (id %d) because it was not found", <<id>>))
    ELSE IF ~isHTTPStatusSuccessful(res.status, {StatusOK, 204})
    THEN ReturnedEntity(NilIssue, DecodeErrors(res))
    ELSE ReturnedEntity(NilIssue, NilError)


(* ------------------------- running an operation ----------------------- *)

\* the operations of project.go, which belong to the client with an API key
LegacyOps == {"Project", "Projects", "CreateProject", "UpdateProject", "DeleteProject"}

\* a single-entity operation marshals its argument, builds its request and
\* sends it, or returns the error of building it
StartWithBody(p, o, b, json) ==
    /\ pc[p] = "idle"
    /\ client.ok
    /\ IsLegacy(client) <=> o.name \in LegacyOps
    /\ server.mode = "arbitrary"
    /\ op' = [op EXCEPT ![p] = o]
    /\ IF b.panic
       THEN /\ pc' = [pc EXCEPT ![p] = "done"]
            /\ result' = [result EXCEPT ![p] = Panicked]
            /\ UNCHANGED <<req, inflight, log, overflow>>
       ELSE IF ~IsNil(b.err)
       THEN /\ pc' = [pc EXCEPT ![p] = "done"]
            /\ result' = [result EXCEPT ![p] = ReturnedEntity(NilIssue, b.err)]
            /\ UNCHANGED <<req, inflight, log, overflow>>
       ELSE /\ pc' = [pc EXCEPT ![p] = "waitOne"]
            /\ req' = [req EXCEPT ![p] = b.req]
            /\ Do(p, b.req)
            /\ UNCHANGED result
    /\ marshalled' = [marshalled EXCEPT ![p] = json]
    /\ UNCHANGED <<client, server, issues, completed, pages, lastTotal, response, bodyCloses>>

\* an operation whose argument holds no issue
StartSingle(p, o, b) == StartWithBody(p, o, b, NoBody)

GetOneIssue(p) ==
    \E id \in IssueIds, args \in IssueArgs :
        StartSingle(p, [name |-> "getOneIssue", id |-> id],
                    BuildGetOneIssue(client, id, args))

CreateIssue(p) ==
    \E issue \in IssueInputs :
        StartWithBody(p, [name |-> "CreateIssue", id |-> 0], BuildCreateIssue(client),
                      MarshalRequest(issue))

UpdateIssue(p) ==
    \E id \in IssueIds, issue \in IssueInputs :
        StartWithBody(p, [name |-> "UpdateIssue", id |-> id], BuildUpdateIssue(client, id),
                      MarshalRequest(issue))

DeleteIssue(p) ==
    \E id \in IssueIds :
        StartSingle(p, [name |-> "DeleteIssue", id |-> id], BuildDeleteIssue(client, id))

Version(p) ==
    \E id \in IssueIds :
        StartSingle(p, [name |-> "Version", id |-> id],
                    BuildVersion(client, id))

Versions(p) ==
    \E projectId \in ProjectIds :
        StartSingle(p, [name |-> "Versions", id |-> projectId],
                    BuildVersions(client, projectId))

CreateVersion(p) ==
    \E projectId \in ProjectIds :
        StartSingle(p, [name |-> "CreateVersion", id |-> projectId],
                    BuildCreateVersion(client, projectId))

UpdateVersion(p) ==
    \E id \in IssueIds :
        StartSingle(p, [name |-> "UpdateVersion", id |-> id],
                    BuildUpdateVersion(client, id))

DeleteVersion(p) ==
    \E id \in IssueIds :
        StartSingle(p, [name |-> "DeleteVersion", id |-> id],
                    BuildDeleteVersion(client, id))

IssueCategory(p) ==
    \E id \in IssueIds :
        StartSingle(p, [name |-> "IssueCategory", id |-> id],
                    BuildIssueCategory(client, id))

IssueCategories(p) ==
    \E projectId \in ProjectIds :
        StartSingle(p, [name |-> "IssueCategories", id |-> projectId],
                    BuildIssueCategories(client, projectId))

CreateIssueCategory(p) ==
    StartSingle(p, [name |-> "CreateIssueCategory", id |-> 0], BuildCreateIssueCategory(client))

UpdateIssueCategory(p) ==
    \E id \in IssueIds :
        StartSingle(p, [name |-> "UpdateIssueCategory", id |-> id],
                    BuildUpdateIssueCategory(client, id))

DeleteIssueCategory(p) ==
    \E id \in IssueIds :
        StartSingle(p, [name |-> "DeleteIssueCategory", id |-> id],
                    BuildDeleteIssueCategory(client, id))

IssuePriorities(p) ==
    StartSingle(p, [name |-> "IssuePriorities", id |-> 0], BuildIssuePriorities(client))

Project(p) ==
    \E id \in ProjectIds :
        StartSingle(p, [name |-> "Project", id |-> id],
                    BuildProject(client, id))

Projects(p) ==
    StartSingle(p, [name |-> "Projects", id |-> 0], BuildProjects(client))

CreateProject(p) ==
    StartSingle(p, [name |-> "CreateProject", id |-> 0], BuildCreateProject(client))

UpdateProject(p) ==
    \E id \in ProjectIds :
        StartSingle(p, [name |-> "UpdateProject", id |-> id],
                    BuildUpdateProject(client, id))

DeleteProject(p) ==
    \E id \in ProjectIds :
        StartSingle(p, [name |-> "DeleteProject", id |-> id],
                    BuildDeleteProject(client, id))

\* what the operation returns for the response
SingleResult(o, res) ==
    CASE o.name = "getOneIssue" -> GetOneIssueResult(res, o.id)
      [] o.name = "CreateIssue" -> CreateIssueResult(res)
      [] o.name = "UpdateIssue" -> UpdateIssueResult(res, o.id)
      [] o.name = "DeleteIssue" -> DeleteIssueResult(res, o.id)
      [] o.name = "Version" -> VersionResult(res, o.id)
      [] o.name = "Versions" -> VersionsResult(res)
      [] o.name = "CreateVersion" -> CreateVersionResult(res)
      [] o.name = "UpdateVersion" -> UpdateVersionResult(res, o.id)
      [] o.name = "DeleteVersion" -> DeleteVersionResult(res, o.id)
      [] o.name = "IssueCategory" -> IssueCategoryResult(res, o.id)
      [] o.name = "IssueCategories" -> IssueCategoriesResult(res)
      [] o.name = "CreateIssueCategory" -> CreateIssueCategoryResult(res)
      [] o.name = "UpdateIssueCategory" -> UpdateIssueCategoryResult(res, o.id)
      [] o.name = "DeleteIssueCategory" -> DeleteIssueCategoryResult(res, o.id)
      [] o.name = "IssuePriorities" -> IssuePrioritiesResult(res)
      [] o.name = "Project" -> ProjectResult(res, o.id)
      [] o.name = "Projects" -> ProjectsResult(res)
      [] o.name = "CreateProject" -> CreateProjectResult(res)
      [] o.name = "UpdateProject" -> UpdateProjectResult(res, o.id)
      [] o.name = "DeleteProject" -> DeleteProjectResult(res, o.id)

\* the response to a single-entity request arrives and the operation returns
ReceiveSingle(p) ==
    /\ pc[p] = "waitOne"
    /\ \E res \in SingleResponses :
        /\ result' = [result EXCEPT ![p] = SingleResult(op[p], res)]
        /\ response' = [response EXCEPT ![p] = res]
        /\ bodyCloses' = [bodyCloses EXCEPT ![p] = BodyClosed(res)]
        /\ inflight' = [inflight EXCEPT ![p] = @ - 1]
        /\ pc' = [pc EXCEPT ![p] = "done"]
    /\ UNCHANGED <<client, server, op, req, issues, completed, pages, lastTotal,
                   log, overflow, marshalled>>

Next ==
    \/ \E p \in Procs : Issues(p)
    \/ \E p \in Procs : IssuesOf(p)
    \/ \E p \in Procs : IssuesByQuery(p)
    \/ \E p \in Procs : IssuesByFilter(p)
    \/ \E p \in Procs : SendPage(p)
    \/ \E p \in Procs : ReceivePage(p)
    \/ \E p \in Procs : GetOneIssue(p)
    \/ \E p \in Procs : CreateIssue(p)
    \/ \E p \in Procs : UpdateIssue(p)
    \/ \E p \in Procs : DeleteIssue(p)
    \/ \E p \in Procs : Version(p)
    \/ \E p \in Procs : Versions(p)
    \/ \E p \in Procs : CreateVersion(p)
    \/ \E p \in Procs : UpdateVersion(p)
    \/ \E p \in Procs : DeleteVersion(p)
    \/ \E p \in Procs : IssueCategory(p)
    \/ \E p \in Procs : IssueCategories(p)
    \/ \E p \in Procs : CreateIssueCategory(p)
    \/ \E p \in Procs : UpdateIssueCategory(p)
    \/ \E p \in Procs : DeleteIssueCategory(p)
    \/ \E p \in Procs : IssuePriorities(p)
    \/ \E p \in Procs : Project(p)
    \/ \E p \in Procs : Projects(p)
    \/ \E p \in Procs : CreateProject(p)
    \/ \E p \in Procs : UpdateProject(p)
    \/ \E p \in Procs : DeleteProject(p)
    \/ \E p \in Procs : ReceiveSingle(p)
    \/ ServerDelete

Spec == Init /\ [][Next]_vars

(* ----------------- listings against a server with deletions ----------- *)

\* a client with a valid endpoint and a server that serves honest pages
LiveInit ==
    /\ client \in {c \in Clients : c.ok}
    /\ server \in {srv \in Servers : srv.mode \in {"static", "deleting"}}
    /\ InitCallers({1})

LiveNext ==
    \/ \E p \in Procs : Issues(p)
    \/ \E p \in Procs : IssuesOf(p)
    \/ \E p \in Procs : IssuesByQuery(p)
    \/ \E p \in Procs : IssuesByFilter(p)
    \/ \E p \in Procs : SendPage(p)
    \/ \E p \in Procs : ReceivePage(p)
    \/ ServerDelete

\* The caller's goroutine keeps running its loop and the server answers every
\* request it receives; nothing obliges the server to delete issues.
SpecLive ==
    /\ LiveInit
    /\ [][LiveNext]_vars
    /\ \A p \in Procs : WF_vars(SendPage(p)) /\ WF_vars(ReceivePage(p))

(* ------------------ two callers sharing one client -------------------- *)

\* the client two goroutines share: a valid endpoint, a token sent in the
\* query, every setting of Limit and Offset
SharedClients ==
    { c \in Clients :
        c.ok /\ c.auth = APIAuth(AuthTypeTokenQueryParam, testToken, EmptyString, EmptyString) }

\* two goroutines call listings on one client, against a server whose list
\* does not change
SharedInit ==
    /\ client \in SharedClients
    /\ server \in {srv \in Servers : srv.mode = "static"}
    /\ InitCallers(Procs)

SharedNext ==
    \/ \E p \in Procs : Issues(p)
    \/ \E p \in Procs : IssuesOf(p)
    \/ \E p \in Procs : IssuesByQuery(p)
    \/ \E p \in Procs : IssuesByFilter(p)
    \/ \E p \in Procs : SendPage(p)
    \/ \E p \in Procs : ReceivePage(p)

SpecShared == SharedInit /\ [][SharedNext]_vars

(* ======================= properties of the listing ==================== *)

ListingOps == {"Issues", "IssuesOf", "IssuesByQuery", "IssuesByFilter"}

\* caller p runs a listing whose request was built: it reached the loop
Entered(p) == op[p].name \in ListingOps /\ ~req[p].isNil

Done(p) == pc[p] = "done"

\* the requests of caller p that the server received, in order
LogOf(p) == SelectSeq(log, LAMBDA e : e.proc = p)

\* the offset parameter's values on the k-th request of caller p
OffsetsOf(p, k) ==
    IF HasParam(LogOf(p)[k].req.query, strOffset)
    THEN LogOf(p)[k].req.query[strOffset]
    ELSE <<>>

RECURSIVE Sum(_)
Sum(seq) == IF Len(seq) = 0 THEN 0 ELSE seq[1] + Sum(Tail(seq))

CeilDiv(a, b) == (a + b - 1) \div b

\* the server's issue count and the page size it uses for caller p
ServerN == Len(server.items)
LimitFor(p) == EffectiveLimit(server, req[p])

\* C1 as stated: against a static server with N issues served in pages of
\* size limit, a finished listing has sent exactly ceil(N/limit) requests
\* (1 when N = 0).
C1_Original ==
    \A p \in Procs :
        (Entered(p) /\ Done(p) /\ server.mode = "static")
        => Len(LogOf(p)) = (IF ServerN = 0 THEN 1 ELSE CeilDiv(ServerN, LimitFor(p)))

\* C1 amended: against a static server with N issues served in pages of size
\* limit, a listing returns without error after exactly ceil(N/limit) + 1
\* requests when N > 0 and exactly 1 when N = 0: the loop tests total_count
\* against the count held before the page is appended, so after the page that
\* brings the count to N it sends one more request, with offset N, whose page
\* is empty, and stops after that response.
C1_RequestCount ==
    \A p \in Procs :
        (Entered(p) /\ Done(p) /\ server.mode = "static")
        => /\ result[p].returned /\ IsNil(result[p].err)
           /\ ~overflow
           /\ Len(LogOf(p)) =
                (IF ServerN = 0 THEN 1 ELSE CeilDiv(ServerN, LimitFor(p)) + 1)
           /\ OffsetsOf(p, Len(LogOf(p))) = <<Itoa(ServerN)>>
           /\ Len(pages[p]) = Len(LogOf(p))
           /\ pages[p][Len(pages[p])] = 0
           /\ Sum(pages[p]) = ServerN

\* C1 witness: three issues in pages of two took three requests
C1_Witness ==
    /\ server.mode = "static" /\ ServerN = 3 /\ Entered(1) /\ Done(1)
    /\ LimitFor(1) = 2
    /\ Len(LogOf(1)) = 3

\* C2: Issues() and IssuesOf(projectId) against a server that reports
\* total_count = 1 and returns the one issue for offset 0 (whatever it returns
\* for other offsets) send exactly two GET requests, the first with offset=0
\* and the second with offset=1.
C2_TwoRequests ==
    \A p \in Procs :
        (/\ Entered(p) /\ Done(p)
         /\ op[p].name \in {"Issues", "IssuesOf"}
         /\ server.mode \in {"static", "ignoreOffset"}
         /\ ServerN = 1)
        => /\ ~overflow
           /\ Len(LogOf(p)) = 2
           /\ \A k \in 1..2 : LogOf(p)[k].req.method = "GET"
           /\ OffsetsOf(p, 1) = << <<"0">> >>
           /\ OffsetsOf(p, 2) = << <<"1">> >>

\* C2 witness: IssuesOf against the server of TestClient_IssuesOf, which
\* returns the one issue on every request, finished after two requests
C2_Witness ==
    /\ server.mode = "ignoreOffset" /\ ServerN = 1
    /\ op[1].name = "IssuesOf" /\ Done(1) /\ result[1].returned
    /\ Len(LogOf(1)) = 2

\* C3: in a paged listing the offset parameter of the k-th request is the
\* decimal number of issues received in the pages of requests 1..k-1, and it
\* is the only offset value of the request, for every k and every sequence of
\* page sizes the server returns.
C3_OffsetIsCount ==
    \A p \in Procs :
        op[p].name \in ListingOps
        => \A k \in 1..Len(LogOf(p)) :
              /\ k - 1 <= Len(pages[p])
              /\ OffsetsOf(p, k) = << Itoa(Sum(SubSeq(pages[p], 1, k - 1))) >>

\* C3 witness: after pages of 2 and 1 issues the third request has offset=3,
\* which is neither the page index nor page * limit
C3_Witness ==
    /\ op[1].name \in ListingOps
    /\ pages[1] = <<2, 1>>
    /\ Len(LogOf(1)) = 3
    /\ OffsetsOf(1, 3) = << <<"3">> >>

\* C4: against a static server holding the issues 1..N that serves the page
\* at the requested offset, a listing returns without error exactly the
\* issues 1..N, each once, in order.
C4_AllItems ==
    \A p \in Procs :
        (Entered(p) /\ Done(p) /\ server.mode = "static")
        => /\ result[p].returned /\ IsNil(result[p].err)
           /\ result[p].issues = [i \in 1..ServerN |-> i]
           /\ result[p].issues = server.items

\* C4 witness: three issues fetched in pages of two
C4_Witness ==
    /\ server.mode = "static" /\ Entered(1) /\ Done(1)
    /\ LimitFor(1) = 2
    /\ pages[1] = <<2, 1, 0>>
    /\ result[1].issues = <<1, 2, 3>>

C6_Terminates == \A p \in Procs : Entered(p) ~> Done(p)

\* a listing that reached its loop has returned an error
FailedListing(p) ==
    Entered(p) /\ Done(p) /\ result[p].returned /\ ~IsNil(result[p].err)

C7_Step ==
    \A p \in Procs :
        /\ FailedListing(p)'
           => /\ result'[p].issues = <<>>
              /\ inflight'[p] = 0
              /\ (~overflow' => Len(LogOf(p)') = Len(pages'[p]) + 1)
        /\ Done(p)
           => /\ Done(p)'
              /\ LogOf(p)' = LogOf(p)
              /\ result'[p] = result[p]

\* C7: when a page request of a listing fails (transport error, non-200
\* status, undecodable body) the listing returns that error with no issues,
\* whatever it had accumulated; the failed request is the last one it sent
\* (one more than the pages it decoded), and a listing that has returned
\* sends nothing more.
C7_FailureAborts == [][C7_Step]_vars

\* C7 witness: a listing failed after it had accumulated issues
C7_Witness ==
    /\ FailedListing(1)
    /\ Len(issues[1]) > 0
    /\ Len(LogOf(1)) = 2
    /\ result[1].issues = <<>>

\* C8: a caller never has more than one request in flight, it has one
\* exactly while it waits for a response, and every request a listing sent
\* beyond the pages it decoded is the one in flight or the one that failed:
\* request k+1 is sent only after page k was received and decoded.
C8_Sequential ==
    \A p \in Procs :
        /\ inflight[p] \in {0, 1}
        /\ inflight[p] = 1 <=> pc[p] \in {"wait", "waitOne"}
        /\ (op[p].name \in ListingOps /\ ~overflow)
           => Len(LogOf(p)) =
                Len(pages[p]) + inflight[p] + (IF FailedListing(p) THEN 1 ELSE 0)

\* C8 witness: the third request of a listing is in flight after two pages
C8_Witness ==
    /\ pc[1] = "wait" /\ inflight[1] = 1
    /\ Len(pages[1]) = 2 /\ Len(LogOf(1)) = 3

Methods == {"GET", "POST", "PUT", "DELETE"}

\* the requests authenticatedRequest builds for the client, the requests the
\* callers hold and the requests the server received
RequestsSeen ==
    {r \in {authenticatedRequest(client, m,
                jsonResourceEndpointByID(client.endpoint, "issues", 1)).req :
              m \in IF client.endpoint = "valid" THEN Methods ELSE {}} : ~r.isNil}
    \cup {req[p] : p \in {q \in Procs : ~req[q].isNil}}
    \cup {log[k].req : k \in 1..Len(log)}

\* C9: under token-as-query-param every request carries key=<token> (once)
\* and no Basic credentials; under basic-auth every request carries the
\* Basic credentials (user, password) and no key parameter.  This holds for
\* the requests of every verb and for every page request of a listing.
C9_AuthExclusive ==
    (client.ok /\ ~IsLegacy(client)) =>
        \A r \in RequestsSeen :
            /\ client.auth.AuthType = AuthTypeTokenQueryParam
               => /\ HasParam(r.query, strKey)
                  /\ r.query[strKey] = <<client.auth.Token>>
                  /\ ~r.basicAuth.set
            /\ client.auth.AuthType = AuthTypeBasicAuth
               => /\ r.basicAuth =
                        [set |-> TRUE, user |-> client.auth.User,
                         password |-> client.auth.Password]
                  /\ ~HasParam(r.query, strKey)

\* C9 witness: the second page request of a listing under token auth, by a
\* client whose user and password fields are filled in as well
C9_Witness ==
    /\ client.ok /\ ~IsLegacy(client)
    /\ client.auth.AuthType = AuthTypeTokenQueryParam
    /\ client.auth.User # EmptyString
    /\ Len(LogOf(1)) = 2 /\ op[1].name \in ListingOps
    /\ LogOf(1)[2].req.query[strKey] = <<testToken>>
    /\ ~LogOf(1)[2].req.basicAuth.set

\* C10: under each of the four auth variants no request carries both Basic
\* credentials and a key parameter; under basic-auth-with-token-as-password
\* every request carries the Basic credentials (user, token) and no key
\* parameter; under no-auth every request carries neither.
C10_NeverBoth ==
    (client.ok /\ ~IsLegacy(client)) =>
        \A r \in RequestsSeen :
            /\ ~(r.basicAuth.set /\ HasParam(r.query, strKey))
            /\ client.auth.AuthType = AuthTypeBasicAuthWithTokenPassword
               => /\ r.basicAuth =
                        [set |-> TRUE, user |-> client.auth.User,
                         password |-> client.auth.Token]
                  /\ ~HasParam(r.query, strKey)
            /\ client.auth.AuthType = AuthTypeNoAuth
               => ~r.basicAuth.set /\ ~HasParam(r.query, strKey)

\* C10 witness: a PUT sent under basic-auth-with-token-as-password by a
\* client whose password field differs from its token
C10_Witness ==
    /\ client.ok /\ ~IsLegacy(client)
    /\ client.auth.AuthType = AuthTypeBasicAuthWithTokenPassword
    /\ client.auth.Password # client.auth.Token
    /\ Len(log) = 1 /\ log[1].req.method = "PUT"
    /\ log[1].req.basicAuth.password = testToken

(* ================== properties of client construction ================= *)

\* no caller has built or sent anything
NothingSent ==
    /\ log = <<>> /\ ~overflow
    /\ \A p \in Procs : inflight[p] = 0 /\ req[p].isNil /\ pc[p] \in {"idle", "off"}

\* C11: NewClient with basic-auth or basic-auth-with-token-as-password and an
\* empty user returns an error and no client, and with no client no request
\* is ever built or sent: the failure is one of construction.
C11_EmptyUserRejected ==
    /\ \A e \in Endpoints, a \in AuthConfigs :
          (/\ a.AuthType \in {AuthTypeBasicAuth, AuthTypeBasicAuthWithTokenPassword}
           /\ a.User = EmptyString)
          => ~NewClient(e, a).ok /\ ~IsNil(NewClient(e, a).err)
    /\ ~client.ok => NothingSent

\* C11 witness: NewClient was called with basic-auth and an empty user
C11_Witness ==
    /\ client = NewClient("valid", APIAuth(AuthTypeBasicAuth, EmptyString,
                                           EmptyString, testPassword))
    /\ ~client.ok
    /\ client.err[1] = E("could not create redmine client", <<>>)
    /\ NothingSent

\* C12: a client exists only if every field its auth variant carries is
\* filled in (user and password for basic-auth, token for
\* token-as-query-param, user and token for
\* basic-auth-with-token-as-password) and its auth type is one of the four.
C12_AllFieldsChecked ==
    (client.ok /\ ~IsLegacy(client)) =>
        /\ client.auth.AuthType \in AuthTypeBasicAuth..AuthTypeNoAuth
        /\ client.auth.AuthType = AuthTypeBasicAuth
           => client.auth.User # EmptyString /\ client.auth.Password # EmptyString
        /\ client.auth.AuthType = AuthTypeTokenQueryParam
           => client.auth.Token # EmptyString
        /\ client.auth.AuthType = AuthTypeBasicAuthWithTokenPassword
           => client.auth.User # EmptyString /\ client.auth.Token # EmptyString

\* the requests the callers hold and the requests the server received
RequestsSent ==
    {req[p] : p \in {q \in Procs : ~req[q].isNil}} \cup {log[k].req : k \in 1..Len(log)}

\* C13: no request carries a key parameter with an empty value, whichever
\* constructor built the client: with an empty token or API key the key
\* parameter is left out.
C13_NoEmptyKey ==
    \A r \in RequestsSent :
        HasParam(r.query, strKey)
        => \A i \in 1..Len(r.query[strKey]) : r.query[strKey][i] # EmptyString

\* C14: with an endpoint that is no valid URL every operation of a client,
\* whatever its auth variant, returns an error to its caller (it does not
\* panic on the request that could not be created) and sends nothing.
C14_InvalidEndpoint ==
    (client.ok /\ ~IsLegacy(client) /\ client.endpoint = "invalid") =>
        /\ RequestsSent = {}
        /\ \A p \in Procs :
              pc[p] = "done"
              => /\ ~result[p].panic
                 /\ result[p].returned
                 /\ ~IsNil(result[p].err)

(* ================= properties of building a list request ============== *)

\* caller p has built the request of its listing and has not yet sent it
JustBuilt(p) ==
    /\ Entered(p) /\ pc[p] = "loop"
    /\ Len(LogOf(p)) = 0 /\ ~overflow

\* what applying the auth policy sets on a request
AuthSteps(c) ==
    CASE c.auth.AuthType = AuthTypeTokenQueryParam -> <<strKey>>
      [] c.auth.AuthType \in {AuthTypeBasicAuth, AuthTypeBasicAuthWithTokenPassword} ->
            <<strAuthorization>>
      [] OTHER -> <<>>

\* the pagination parameters of a client, limit before offset
PaginationSteps(c) ==
    (IF c.Limit # NoSetting THEN <<strLimit>> ELSE <<>>)
    \o (IF c.Offset # NoSetting THEN <<strOffset>> ELSE <<>>)

\* the parameter a listing adds for its caller
CallerSteps(o) ==
    CASE o.name = "IssuesOf" -> <<strProjectId>>
      [] o.name = "IssuesByQuery" -> <<strQueryId>>
      [] OTHER -> <<>>

\* C15 as stated: the pagination parameters are set first, then the caller's
\* parameters, and the auth policy is applied last.
C15_Original ==
    \A p \in Procs :
        JustBuilt(p)
        => req[p].steps = PaginationSteps(client) \o CallerSteps(op[p]) \o AuthSteps(client)

\* C15: when a list request is built the auth policy is applied first, with
\* the creation of the request; IssuesOf then adds project_id and after it
\* the pagination parameters, IssuesByQuery and Issues add the pagination
\* parameters and IssuesByQuery adds query_id after them.
C15_AuthFirst ==
    \A p \in Procs :
        JustBuilt(p)
        => req[p].steps =
              AuthSteps(client)
              \o (IF op[p].name = "IssuesOf"
                  THEN CallerSteps(op[p]) \o PaginationSteps(client)
                  ELSE PaginationSteps(client) \o CallerSteps(op[p]))

\* C15 witness: IssuesOf has built its request for a token client with a
\* limit: key was set first, project_id second, limit third
C15_Witness ==
    /\ JustBuilt(1) /\ op[1].name = "IssuesOf"
    /\ req[1].steps = <<strKey, strProjectId, strLimit>>

\* the values a caller may assign to Client.Limit and Client.Offset
PaginationValues == {NoSetting - 1, NoSetting, 0} \cup (1..MaxLimit)

\* the keys of a list of key/value pairs
KeysOf(kvs) == {kvs[i].key : i \in 1..Len(kvs)}

\* the list operations that send one request with the client's pagination
UnpagedLists == {"IssuePriorities", "Versions", "IssueCategories"}

\* caller p holds a request to which only the client's pagination
\* parameters were added, not yet the offset of the paging loop
PaginationBuilt(p) ==
    \/ JustBuilt(p)
    \/ op[p].name \in UnpagedLists /\ ~req[p].isNil

\* C16: limit (offset) is among the pagination parameters exactly when the
\* client's Limit (Offset) is greater than -1, so never when it is the unset
\* sentinel -1; with both unset getPaginationClauseParams returns the empty
\* list and getPaginationClause the empty string; and a list request as built
\* carries limit (offset) only if the client's value is not the sentinel.
C16_PaginationOnlyIfSet ==
    /\ \A l \in PaginationValues, o \in PaginationValues :
          LET c == [Limit |-> l, Offset |-> o]
          IN  /\ strLimit \in KeysOf(getPaginationClauseParams(c)) <=> l > -1
              /\ strOffset \in KeysOf(getPaginationClauseParams(c)) <=> o > -1
              /\ (l = NoSetting /\ o = NoSetting)
                 => /\ getPaginationClauseParams(c) = <<>>
                    /\ getPaginationClause(c) = EmptyString
              /\ getPaginationClause(c) = EmptyString <=> (l <= -1 /\ o <= -1)
    /\ \A p \in Procs :
          PaginationBuilt(p)
          => /\ HasParam(req[p].query, strLimit) => client.Limit # NoSetting
             /\ HasParam(req[p].query, strOffset) => client.Offset # NoSetting

\* C16 witness: IssuePriorities sent its request for a client whose Limit is
\* set and whose Offset is not: the request carries limit and no offset
C16_Witness ==
    /\ op[1].name = "IssuePriorities" /\ pc[1] = "waitOne"
    /\ client.Limit = 1 /\ client.Offset = NoSetting
    /\ QueryGet(req[1].query, strLimit) = Itoa(1)
    /\ ~HasParam(req[1].query, strOffset)

(* ==================== properties of decoding responses =============== *)

\* caller p ran an operation that received the response of the server
Received(p) ==
    /\ pc[p] = "done" /\ result[p].returned
    /\ response[p] # NoResponse /\ ~response[p].transport

GetOps == {"getOneIssue", "Version", "IssueCategory", "Project"}
UpdateOps == {"UpdateIssue", "UpdateVersion", "UpdateIssueCategory", "UpdateProject"}
DeleteOps == {"DeleteIssue", "DeleteVersion", "DeleteIssueCategory", "DeleteProject"}
CreateOps == {"CreateIssue", "CreateVersion", "CreateIssueCategory", "CreateProject"}
ListOps == ListingOps \cup UnpagedLists \cup {"Projects"}

\* the resource kind an operation is about
KindOf(name) ==
    CASE name \in {"getOneIssue", "UpdateIssue", "DeleteIssue", "CreateIssue"} -> "issue"
      [] name \in {"Version", "UpdateVersion", "DeleteVersion", "CreateVersion"} -> "version"
      [] name \in {"IssueCategory", "UpdateIssueCategory", "DeleteIssueCategory",
                   "CreateIssueCategory"} -> "issue category"
      [] OTHER -> "project"

\* the message a 404 must give: "<kind> (id: <id>) was not found" for Get,
\* "could not <verb> <kind> (id: <id>) because it was not found" else
NotFoundFormat(name) ==
    IF name \in GetOps THEN KindOf(name) \o " (id: %d) was not found"
    ELSE "could not " \o (IF name \in UpdateOps THEN "update" ELSE "delete") \o " "
         \o KindOf(name) \o " (id: %d) because it was not found"

\* C17: a single-entity Get, Update or Delete that received HTTP 404 returns
\* exactly the error with the fixed not-found message of its resource kind
\* and id, in the form "(id: <id>)", whatever the body of the response.
C17_NotFoundMessage ==
    \A p \in Procs :
        (/\ Received(p)
         /\ op[p].name \in GetOps \cup UpdateOps \cup DeleteOps
         /\ response[p].status = 404)
        => result[p].err = NewError(NotFoundFormat(op[p].name), <<op[p].id>>)

\* the success statuses of an operation: 201 for Create, 200 and 204 for
\* Update and Delete, 200 for Get and List
SuccessSet(name) ==
    IF name \in CreateOps THEN {201}
    ELSE IF name \in UpdateOps \cup DeleteOps THEN {StatusOK, 204}
    ELSE {StatusOK}

\* C18: an operation that returned without an error received a response
\* whose status is in its success set; so every other status (another 2xx
\* status, an error status whose body has an empty errors list) and a
\* missing response give a non-nil error.
C18_SuccessOnlyInSet ==
    \A p \in Procs :
        (pc[p] = "done" /\ result[p].returned /\ IsNil(result[p].err))
        => /\ Received(p)
           /\ response[p].status \in SuccessSet(op[p].name)

\* C18 witness: DeleteProject received 422 with {"errors": []} and returned
\* an error
C18_Witness ==
    /\ Received(1) /\ op[1].name = "DeleteProject"
    /\ response[1] = Response(422, ErrorsBody(<<>>))
    /\ ~IsNil(result[1].err)

\* the error says "HTTP <status line>" somewhere in its chain
HasStatusLine(err, status) ==
    \E i \in 1..Len(err) : err[i] = E("HTTP status", <<status>>)

\* C19: an operation that received HTTP 401 with an empty body returns an
\* error whose message contains the status line "HTTP 401 Unauthorized".
C19_Unauthorized ==
    \A p \in Procs :
        (Received(p) /\ response[p] = Response(401, OtherBody("empty")))
        => HasStatusLine(result[p].err, 401)

\* the errors e1..en of a body joined by newlines, for the bodies of the
\* servers (at most two errors)
ErrorLines(errs) ==
    CASE Len(errs) = 0 -> ""
      [] Len(errs) = 1 -> errs[1]
      [] OTHER -> errs[1] \o "\n" \o errs[2]

\* C20: an operation that received a status outside its success set, other
\* than 404, with a body {"errors": [e1, ..., en]} returns an error whose
\* innermost message is e1..en joined by newlines in their order.
C20_ErrorsJoined ==
    \A p \in Procs :
        (/\ Received(p)
         /\ response[p].status \notin SuccessSet(op[p].name) \cup {404}
         /\ response[p].body.kind = "errors")
        => /\ ~IsNil(result[p].err)
           /\ result[p].err[Len(result[p].err)] =
                 E(ErrorLines(response[p].body.errors), <<>>)

\* C20 witness: UpdateVersion received 422 with two errors and returned them
\* joined by a newline, wrapped in its own message
C20_Witness ==
    /\ Received(1) /\ op[1].name = "UpdateVersion"
    /\ response[1] = Response(422, ErrorsBody(<<"e1", "e2">>))
    /\ result[1].err = <<E("error while updating version", <<1>>), E("e1\ne2", <<>>)>>

(* ================= properties of resources and sharing ================ *)

RECURSIVE OffsetsAlone(_, _, _, _)
\* the offset values of the first k requests of a listing that runs alone
\* against srv with the request it built: the loop of
\* getPagedIssuesForRequest with no other caller
OffsetsAlone(srv, request, iss, k) ==
    IF k = 0 THEN <<>>
    ELSE LET sent == safelySetQueryParameter(request, strOffset, Itoa(Len(iss))).req
             res == CHOOSE r \in ListResponses(srv, sent, Len(iss)) : TRUE
             page == DecodePage(res, sent)
         IN  <<sent.query[strOffset]>> \o
             (IF ~page.ok \/ IsComplete(page, iss) THEN <<>>
              ELSE OffsetsAlone(srv, sent, AppendPage(iss, page.issues), k - 1))

\* the offset values caller p sent, request by request
OffsetsSent(p) == [k \in 1..Len(LogOf(p)) |-> OffsetsOf(p, k)]

IsPrefix(a, b) == Len(a) <= Len(b) /\ a = SubSeq(b, 1, Len(a))

\* each listing sends the offsets it sends alone, whatever the other does
SameOffsetsAsAlone ==
    \A p \in Procs :
        Entered(p) =>
            LET alone == OffsetsAlone(server, req[p], <<>>, MaxRequests)
            IN  /\ IsPrefix(OffsetsSent(p), alone)
                /\ Done(p) => OffsetsSent(p) = alone

\* a step of one caller leaves the client and the other caller's request,
\* accumulated issues and result alone
OwnStateOnly ==
    /\ client' = client
    /\ \A p, q \in Procs :
        (p # q /\ pc'[p] # pc[p])
        => /\ req'[q] = req[q]
           /\ issues'[q] = issues[q]
           /\ result'[q] = result[q]
           /\ pc'[q] = pc[q]

\* C22: two listings running concurrently on one shared client do not
\* interfere: no step writes the client, a step of one caller changes
\* neither the request nor the accumulated state of the other, and each
\* listing sends exactly the offsets it sends when it runs alone.
C22_NoInterference == []SameOffsetsAsAlone /\ [][OwnStateOnly]_vars

\* C22 witness: both listings finished with their requests interleaved at the
\* server, each having asked for at least two pages
C22_Witness ==
    /\ Done(1) /\ Done(2) /\ Entered(1) /\ Entered(2)
    /\ IsNil(result[1].err) /\ IsNil(result[2].err)
    /\ Len(LogOf(1)) >= 2 /\ Len(LogOf(2)) >= 2
    /\ log[1].proc # log[2].proc /\ log[2].proc # log[3].proc
    /\ op[1].name # op[2].name

(* ======================= properties of results ======================== *)

\* strings.Contains
Contains(str, sub) ==
    \E i \in 1..(Len(str) - Len(sub) + 1) : SubSeq(str, i, i + Len(sub) - 1) = sub

\* the word by which a message names the resource of an operation
ResourceWords(name) ==
    CASE name \in ListingOps -> {"issue"}
      [] name = "Versions" -> {"version"}
      [] name = "IssueCategories" -> {"issue categor", "issue_categories"}
      [] name = "IssuePriorities" -> {"issue priorities", "issue_priorities"}
      [] name = "Projects" -> {"project"}
      [] KindOf(name) = "issue category" -> {"issue categor", "issue_category"}
      [] OTHER -> {KindOf(name)}

\* the word by which a message names the verb of an operation
VerbWords(name) ==
    IF name \in UpdateOps THEN {"updat"}
    ELSE IF name \in DeleteOps THEN {"delet"}
    ELSE IF name \in CreateOps THEN {"creat"}
    ELSE {"read", "get", "list"}

\* caller p's operation returned an error of building the request, of the
\* transport, or of a status outside its success set (the not-found message
\* of a 404 aside)
FailedBeforeDecoding(p) ==
    /\ pc[p] = "done" /\ result[p].returned /\ ~IsNil(result[p].err)
    /\ \/ Len(LogOf(p)) = 0 /\ ~overflow
       \/ response[p].transport
       \/ /\ Received(p)
          /\ response[p].status \notin SuccessSet(op[p].name) \cup {404}

\* C23: an error of request construction, of the transport or of a
\* non-success status reaches the caller with an outermost message that
\* names the resource of the operation; the error of a request that was
\* sent is wrapped, and its outermost message names the operation's verb.
C23_ErrorsWrapped ==
    \A p \in Procs :
        FailedBeforeDecoding(p)
        => /\ Len(LogOf(p)) > 0 => Len(result[p].err) >= 2
           /\ \E w \in ResourceWords(op[p].name) : Contains(result[p].err[1].msg, w)
           /\ (Len(LogOf(p)) > 0
               => \E v \in VerbWords(op[p].name) : Contains(result[p].err[1].msg, v))

\* C24: an operation that returned a non-nil error returned nothing with
\* it: a nil slice from a list operation, a nil pointer from Get and Create,
\* whether the error came from building the request, from the transport,
\* from the status or from decoding the body.
C24_EmptyOnError ==
    \A p \in Procs :
        (pc[p] = "done" /\ result[p].returned /\ ~IsNil(result[p].err))
        => result[p].issues = <<>> /\ result[p].entity = NilIssue

\* C24 witness: getOneIssue received 200 with a body that is no JSON and
\* returned the decoding error with a nil issue
C24_Witness ==
    /\ Received(1) /\ op[1].name = "getOneIssue"
    /\ response[1] = Response(StatusOK, OtherBody("garbled"))
    /\ ~IsNil(result[1].err) /\ result[1].entity = NilIssue

SingleOps == GetOps \cup CreateOps \cup UpdateOps \cup DeleteOps

\* a single-entity operation whose request was built has sent it once: it
\* is in flight while the operation waits and answered when it returned
RoundTripOnce ==
    \A p \in Procs :
        op[p].name \in SingleOps
        => /\ ~overflow
           /\ Len(LogOf(p)) = (IF req[p].isNil THEN 0 ELSE 1)
           /\ inflight[p] = (IF pc[p] = "waitOne" THEN 1 ELSE 0)
           /\ (Done(p) /\ result[p].returned /\ IsNil(result[p].err)) => Len(LogOf(p)) = 1

\* an operation that received its answer returns at once, whatever the
\* answer, and sends nothing afterwards
NoResend ==
    \A p \in Procs :
        /\ (op[p].name \in SingleOps /\ pc[p] = "waitOne" /\ pc'[p] # pc[p])
           => pc'[p] = "done" /\ result'[p].returned /\ log' = log
        /\ (op[p].name \in SingleOps /\ Done(p)) => LogOf(p)' = LogOf(p) /\ Done(p)'

\* C25: a single-entity operation whose request was built makes exactly one
\* HTTP round trip: the step that receives the answer, be it a transport
\* failure, an error status or a success, ends the operation, and the
\* request is never sent again.
C25_OneRoundTrip == []RoundTripOnce /\ [][NoResend]_vars

\* C25 witness: DeleteVersion got a transport failure, returned the error and
\* the server saw its one request
C25_Witness ==
    /\ op[1].name = "DeleteVersion" /\ Done(1)
    /\ response[1] = TransportFailure
    /\ ~IsNil(result[1].err)
    /\ Len(LogOf(1)) = 1 /\ inflight[1] = 0

\* the client can build the request of a plain listing
CanList == ~BuildIssues(client).panic /\ IsNil(BuildIssues(client).err)

\* C26: IssuesByFilter on a client that can list issues, against a server
\* that serves honest pages, sends paged GET requests to issues.json and
\* returns the issues of the server without an error, for a filter with
\* fields set and for a nil or empty filter alike.
C26_FilterLists ==
    \A p \in Procs :
        (/\ op[p].name = "IssuesByFilter" /\ Done(p)
         /\ CanList /\ server.mode = "static")
        => /\ result[p].returned /\ IsNil(result[p].err)
           /\ Len(LogOf(p)) >= 1
           /\ \A k \in 1..Len(LogOf(p)) : LogOf(p)[k].req.method = "GET"
           /\ result[p].issues = server.items

(* ===================== properties of page requests ==================== *)

\* a request without its offset parameter and without the record of the
\* order in which its parts were set
WithoutOffset(request) ==
    [request EXCEPT !.query = [k \in DOMAIN request.query \ {strOffset} |-> request.query[k]],
                    !.steps = <<>>]

\* C27: two consecutive page requests of one listing are the same request up
\* to the offset parameter: method, path, Basic credentials, content type and
\* every other query parameter (key, limit, project_id, query_id) with its
\* values are identical.
C27_OnlyOffsetChanges ==
    \A p \in Procs :
        op[p].name \in ListingOps
        => \A k \in 1..(Len(LogOf(p)) - 1) :
              WithoutOffset(LogOf(p)[k].req) = WithoutOffset(LogOf(p)[k + 1].req)

\* C27 witness: IssuesOf sent two page requests with different offsets, both
\* carrying the project id, the limit and the API key
C27_Witness ==
    /\ op[1].name = "IssuesOf" /\ Len(LogOf(1)) >= 2
    /\ OffsetsOf(1, 1) # OffsetsOf(1, 2)
    /\ \A k \in 1..2 :
          /\ HasParam(LogOf(1)[k].req.query, strProjectId)
          /\ HasParam(LogOf(1)[k].req.query, strLimit)
          /\ HasParam(LogOf(1)[k].req.query, strKey)

\* C28: every page request of a listing carries the offset parameter with
\* exactly one value, the count of issues accumulated when it was sent: the
\* first request carries offset=0 also when Client.Offset is set, and a later
\* one carries its count in place of the earlier offset.
C28_SingleOffset ==
    \A p \in Procs :
        op[p].name \in ListingOps
        => /\ \A k \in 1..Len(LogOf(p)) :
                /\ HasParam(LogOf(p)[k].req.query, strOffset)
                /\ Len(OffsetsOf(p, k)) = 1
           /\ Len(LogOf(p)) >= 1 => OffsetsOf(p, 1) = <<Itoa(0)>>
           /\ (~overflow /\ Len(LogOf(p)) >= 1 /\ pc[p] = "wait")
              => OffsetsOf(p, Len(LogOf(p))) = <<Itoa(Len(issues[p]))>>

\* C28 witness: a client with Offset = 1 sent its second page request; the
\* first carried offset=0 alone and the second its one new offset
C28_Witness ==
    /\ op[1].name \in ListingOps /\ Len(LogOf(1)) = 2
    /\ client.Offset = 1
    /\ OffsetsOf(1, 1) = <<Itoa(0)>>
    /\ Len(OffsetsOf(1, 2)) = 1 /\ OffsetsOf(1, 2) # <<Itoa(0)>>

\* C29: a paged listing that returned without an error returned as many
\* issues as the total_count of the last response says, and not more,
\* whatever the server answered (a server that ignores the offset included).
C29_CountIsTotal ==
    \A p \in Procs :
        (Entered(p) /\ Done(p) /\ result[p].returned /\ IsNil(result[p].err))
        => /\ Len(result[p].issues) = lastTotal[p]
           /\ Len(result[p].issues) <= lastTotal[p]

(* ====================== properties of marshalling ===================== *)

\* C30: the JSON of an issue with ParentId > 0 carries parent_issue_id as the
\* decimal ParentId, and the JSON carries parent_issue_id as the empty
\* string only for an issue whose Parent is nil and whose ParentId is 0.
C30_ParentIssueId ==
    \A p \in Procs :
        ~marshalled[p].isNil
        => /\ marshalled[p].issue.ParentId > 0
              => marshalled[p].parentIssueId = Emitted(Itoa(marshalled[p].issue.ParentId))
           /\ marshalled[p].parentIssueId = Emitted(EmptyString)
              => /\ marshalled[p].issue.Parent.isNil
                 /\ marshalled[p].issue.ParentId = 0

====
